---- MODULE Spec2Model ----
(***************************************************************************)
(* Model of the tasker lifecycle engine (src/src/launchctl.rs) together    *)
(* with the filesystem primitives it relies on (src/src/utils.rs).         *)
(*                                                                         *)
(* A label is a sequence of dot separated segments, a string that takes    *)
(* part in prefix tests or joins is a sequence of tokens, and a path is a  *)
(* record [area, label, rel]: the root directory the path lives under, the *)
(* label that names the folder (or file) below that root, and the          *)
(* components below it.  The file system is a function from the existing   *)
(* paths to "DIR" or to the content of a regular file.                     *)
(*                                                                         *)
(* Every operation of the engine is one action.  The steps of an operation *)
(* that can fail (a file system call, an invocation of launchctl) are      *)
(* numbered as they execute; the operation runs under a set F of step      *)
(* numbers, and the steps whose number is in F fail.                       *)
(***************************************************************************)
EXTENDS Integers, Sequences, FiniteSets, TLC

\* ---------------------------------------------------------------- bounds
\* number of operations and host events in one behaviour
MaxOps == 3
\* number of steps that fail in one behaviour
MaxFaults == 1

\* ------------------------------------------------------- program constants
TASKER_TASK_NAME == <<"com", "tasker", "tasks">>
TASK_ROOT_ALIAS == "~root~/"
STD_OUT_FILE == "stdout.log"
STD_ERR_FILE == "stderr.log"
MACOSX == "__MACOSX"

\* ------------------------------------------------------------------ inputs
\* labels as written in a declarative text (without the namespace)
ShortA == <<"a">>
ShortB == <<"b">>
LA == TASKER_TASK_NAME \o ShortA
LB == TASKER_TASK_NAME \o ShortB
\* the labels the operations are called with
Labels == {LA, LB}

\* ------------------------------------------------------------ file system
Scratch == [area |-> "scratch", label |-> <<>>, rel |-> <<>>]

get_task_folder_name(l) == [area |-> "tasks", label |-> l, rel |-> <<>>]

get_output_folder_name(l) == [area |-> "out", label |-> l, rel |-> <<>>]

get_trash_folder_name(l) == [area |-> "trash", label |-> l, rel |-> <<>>]

\* meta_dir.join(label + ".yaml")
MetaYaml(l) == [area |-> "meta", label |-> l, rel |-> <<>>]

\* Path::join with one more component
Child(p, name) == [p EXCEPT !.rel = Append(@, name)]

Parent(p) == [p EXCEPT !.rel = SubSeq(@, 1, Len(@) - 1)]

\* the file name of <label>.yaml as a component below another folder
YamlName == "LABEL.yaml"

IsPrefix(s, t) == Len(s) <= Len(t) /\ SubSeq(t, 1, Len(s)) = s

\* q is p or lies below p
Under(p, q) == q.area = p.area /\ q.label = p.label /\ IsPrefix(p.rel, q.rel)

Exists(fs, p) == p \in DOMAIN fs

IsDir(fs, p) == p \in DOMAIN fs /\ fs[p] = "DIR"

IsFile(fs, p) == p \in DOMAIN fs /\ fs[p] # "DIR"

\* the root directories (meta, tasks, trash, out, /tmp/tasker.task.com) exist
ParentIsDir(fs, p) == p.rel = <<>> \/ IsDir(fs, Parent(p))

Entries(fs, p) == {q \in DOMAIN fs : Len(q.rel) > 0 /\ Parent(q) = p}

Ancestors(p) == {[p EXCEPT !.rel = SubSeq(p.rel, 1, n)] : n \in 0..Len(p.rel)}

FsPut(fs, p, c) == [q \in (DOMAIN fs) \cup {p} |-> IF q = p THEN c ELSE fs[q]]

FsDrop(fs, gone) == [q \in (DOMAIN fs) \ gone |-> fs[q]]

\* std::fs::create_dir_all: fails when a component is a regular file
CanCreateDirAll(fs, p) == \A q \in Ancestors(p) : ~IsFile(fs, q)

DoCreateDirAll(fs, p) ==
    [q \in (DOMAIN fs) \cup Ancestors(p) |-> IF q \in Ancestors(p) THEN "DIR" ELSE fs[q]]

\* std::fs::rename of a regular file: the target's folder must exist and the
\* target must not be a directory; an existing target file is replaced
CanRename(fs, src, dst) == IsFile(fs, src) /\ ParentIsDir(fs, dst) /\ ~IsDir(fs, dst)

DoRename(fs, src, dst) == FsDrop(FsPut(fs, dst, fs[src]), {src})

\* std::fs::copy
CanCopy(fs, src, dst) == IsFile(fs, src) /\ ParentIsDir(fs, dst) /\ ~IsDir(fs, dst)

DoCopy(fs, src, dst) == FsPut(fs, dst, fs[src])

\* std::fs::remove_dir_all
DoRemoveDirAll(fs, p) == FsDrop(fs, {q \in DOMAIN fs : Under(p, q)})

\* a fixed enumeration order of a finite set (the order of read_dir)
RECURSIVE SetToSeq(_)
SetToSeq(S) ==
    IF S = {} THEN <<>>
    ELSE LET x == CHOOSE y \in S : TRUE IN <<x>> \o SetToSeq(S \ {x})

\* ------------------------------------------------- the state an operation sees
\* fs: the files below the root directories; plist: the descriptor files in
\* PLIST_FOLDER, by label; jobs: the job table of launchd, the pid and status
\* columns of `launchctl list` by label; prog: whether the program file named
\* by the declarative texts exists; calls: the load and unload invocations of
\* launchctl made so far by the running operation; tick: the number of
\* fallible steps executed so far; F: the numbers of the steps that fail;
\* own: the (uid, gid) of the paths that do not belong to (0, 0).
World(f, p, j, g, FS) ==
    [fs |-> f, plist |-> p, jobs |-> j, prog |-> g, calls |-> <<>>, tick |-> 0, F |-> FS,
     own |-> <<>>]

\* the next fallible step fails
Faulty(w) == (w.tick + 1) \in w.F

Adv(w) == [w EXCEPT !.tick = @ + 1]

\* the result of a step: the world after it, "ok" or the name of the error
\* ("panic" when the thread aborts), and the value returned on success
R(w, res, val) == [w |-> w, res |-> res, val |-> val]

Ok(w) == R(w, "ok", <<>>)

Err(w, e) == R(w, e, <<>>)

\* the `?` of a step: the steps F that follow a step with result r run when
\* r is a success, otherwise r is what the function returns
Then(r, F(_)) == IF r.res # "ok" THEN r ELSE F(r)

\* `let v = ...;` followed by the steps F
With(v, F(_)) == F(v)

\* Option<T>
None == <<>>

Some(x) == <<x>>

\* utils.rs create_dir_check
create_dir_check(w, p) ==
    IF ~Exists(w.fs, p)
    THEN IF Faulty(w) \/ ~CanCreateDirAll(w.fs, p)
         THEN Err(Adv(w), "ErrorCreatingFolder")
         ELSE Ok([Adv(w) EXCEPT !.fs = DoCreateDirAll(w.fs, p)])
    ELSE Ok(w)

\* utils.rs delete_file_check, called on the descriptor file of a label
delete_file_check(w, l) ==
    IF l \in DOMAIN w.plist
    THEN IF Faulty(w)
         THEN Err(Adv(w), "NoFileToDelete")
         ELSE Ok([Adv(w) EXCEPT !.plist = [k \in (DOMAIN w.plist) \ {l} |-> w.plist[k]]])
    ELSE Err(w, "NoFileToDelete")

\* utils.rs try_to_remove_folder
try_to_remove_folder(w, p) ==
    IF Exists(w.fs, p)
    THEN IF Faulty(w)
         THEN Err(Adv(w), "FailedToRemoveFolder")
         ELSE Ok([Adv(w) EXCEPT !.fs = DoRemoveDirAll(w.fs, p)])
    ELSE Ok(w)

\* launchers of the external tool: execute_command(launchctl load <plist>).
\* launchd registers the job described by the file; it needs the file.
LaunchctlLoad(w, l) ==
    LET ok == ~Faulty(w) /\ l \in DOMAIN w.plist /\ l \notin DOMAIN w.jobs
        call == [verb |-> "load", label |-> l, ok |-> ok,
                 desc |-> IF l \in DOMAIN w.plist THEN <<w.plist[l]>> ELSE <<>>]
        w1 == [Adv(w) EXCEPT !.calls = Append(@, call)]
    IN IF ok
       THEN Ok([w1 EXCEPT !.jobs = [k \in (DOMAIN w.jobs) \cup {l} |->
                                      IF k = l THEN [pid |-> "-", status |-> "0"]
                                      ELSE w.jobs[k]]])
       ELSE Err(w1, "CommandExecutionError")

\* execute_command(launchctl unload <plist>)
LaunchctlUnload(w, l) ==
    LET ok == ~Faulty(w)
        call == [verb |-> "unload", label |-> l, ok |-> ok,
                 desc |-> IF l \in DOMAIN w.plist THEN <<w.plist[l]>> ELSE <<>>]
        w1 == [Adv(w) EXCEPT !.calls = Append(@, call)]
    IN IF ok
       THEN Ok([w1 EXCEPT !.jobs = [k \in (DOMAIN w.jobs) \ {l} |-> w.jobs[k]]])
       ELSE Err(w1, "CommandExecutionError")

\* unload_inner that reports success without asking launchd
unload_inner_skipped(w, l) == Ok(w)

\* launchctl.rs unload_inner
unload_inner(w, l) == LaunchctlUnload(w, l)

\* launchctl.rs try_remove_plist: the error of delete_file_check is dropped
try_remove_plist(w, l) == delete_file_check(w, l).w

\* ----------------------------------------------------------------- listing
\* str::parse::<i32> on a column of the list output
ParseI32(tok) ==
    CASE tok = "0" -> Some(0)
      [] tok = "1" -> Some(1)
      [] tok = "7" -> Some(7)
      [] tok = "-9" -> Some(-9)
      [] OTHER -> None

\* the order of String on the segments that occur in labels
SegRank(s) ==
    CASE s = "a" -> 1
      [] s = "apple" -> 2
      [] s = "b" -> 3
      [] s = "com" -> 4
      [] s = "tasker" -> 5
      [] s = "tasks" -> 6
      [] OTHER -> 0

\* impl Ord for TaskInfo: the order of the labels
RECURSIVE LabelLess(_, _)
LabelLess(x, y) ==
    IF y = <<>> THEN FALSE
    ELSE IF x = <<>> THEN TRUE
    ELSE IF Head(x) = Head(y) THEN LabelLess(Tail(x), Tail(y))
    ELSE SegRank(Head(x)) < SegRank(Head(y))

\* str::contains on labels: pat occurs in l
Contains(l, pat) ==
    \E i \in 0..(Len(l) - Len(pat)) : SubSeq(l, i + 1, i + Len(pat)) = pat

\* a line of the list output: the pid, status and label columns
\* (an absent column is the token "")
Line(pid, status, label) == [pid |-> pid, status |-> status, label |-> label]

\* TaskInfo::from_line; the result is "panic" where the code unwraps None
from_line(fs, line) ==
    LET pid == ParseI32(IF line.pid = "" THEN "-" ELSE line.pid)
        last_exit_status == ParseI32(IF line.status = "" THEN "0" ELSE line.status)
        label == line.label
        status == IF pid # None THEN "RUNNING"
                  ELSE IF last_exit_status = None THEN "panic"
                  ELSE IF last_exit_status[1] # 0 THEN "ERROR"
                  ELSE IF ~Exists(fs, Child(get_output_folder_name(label), STD_OUT_FILE))
                       THEN "LOADED"
                  ELSE "NORMAL"
    IN [pid |-> pid, last_exit_status |-> last_exit_status, label |-> label,
        status |-> status]

\* TaskInfo::from_just_label
from_just_label(label) ==
    [pid |-> None, last_exit_status |-> None, label |-> label, status |-> "UNLOADED"]

\* BTreeSet<TaskInfo> is a sequence ordered by label without equal labels
SetContains(set, task) == \E i \in 1..Len(set) : set[i].label = task.label

\* BTreeSet::insert: an element equal to one of the set is not inserted
SetInsert(set, task) ==
    IF SetContains(set, task) THEN set
    ELSE LET n == Cardinality({i \in 1..Len(set) : LabelLess(set[i].label, task.label)})
         IN SubSeq(set, 1, n) \o <<task>> \o SubSeq(set, n + 1, Len(set))

RECURSIVE CollectFiltered(_, _, _)
CollectFiltered(temp, pattern, collected) ==
    IF temp = <<>> THEN collected
    ELSE LET task == Head(temp)
         IN CollectFiltered(Tail(temp), pattern,
                IF Contains(task.label, pattern) /\ Contains(task.label, TASKER_TASK_NAME)
                THEN SetInsert(collected, task) ELSE collected)

\* TaskInfo::from_str_filter on the lines after the header line
from_str_filter(fs, lines, pattern) ==
    With([i \in 1..Len(lines) |-> from_line(fs, lines[i])], LAMBDA temp :
         IF \E i \in 1..Len(temp) : temp[i].status = "panic"
         THEN [res |-> "panic", val |-> <<>>]
         ELSE [res |-> "ok", val |-> CollectFiltered(temp, pattern, <<>>)])

\* the stdout of `launchctl list` without its header
ListOutput(jobs) ==
    LET ls == SetToSeq(DOMAIN jobs)
    IN [i \in 1..Len(ls) |-> Line(jobs[ls[i]].pid, jobs[ls[i]].status, ls[i])]

\* launchctl.rs launchctl_list
launchctl_list(w, pattern) ==
    IF Faulty(w) THEN Err(Adv(w), "LaunchctlListError")
    ELSE With(from_str_filter(w.fs, ListOutput(w.jobs), pattern),
              LAMBDA r : R(Adv(w), r.res, r.val))

\* the name of a file of the meta folder: the label and the yaml extension
file_name(p) == p.label \o <<"yaml">>

\* LABEL_REGEX ^(.+)\.yaml$ : the file name without its extension
LabelCapture(name) == SubSeq(name, 1, Len(name) - 1)

\* launchctl.rs meta_yaml_list: the yaml files of the meta folder whose file
\* name contains the pattern and the namespace marker
meta_yaml_list(w, pattern) ==
    IF Faulty(w) THEN Err(Adv(w), "FailedToReadMetaFolder")
    ELSE LET files == SetToSeq({p \in DOMAIN w.fs : p.area = "meta" /\ IsFile(w.fs, p)
                                   /\ Contains(file_name(p), pattern)
                                   /\ Contains(file_name(p), TASKER_TASK_NAME)})
         IN R(Adv(w), "ok", [i \in 1..Len(files) |->
                                from_just_label(LabelCapture(file_name(files[i])))])

RECURSIVE MergeMeta(_, _)
MergeMeta(launchctl_info, meta_yaml_info) ==
    IF meta_yaml_info = <<>> THEN launchctl_info
    ELSE MergeMeta(IF ~SetContains(launchctl_info, Head(meta_yaml_info))
                   THEN SetInsert(launchctl_info, Head(meta_yaml_info))
                   ELSE launchctl_info,
                   Tail(meta_yaml_info))

\* launchctl.rs list_combined
list_combined(w, pattern) ==
    Then(launchctl_list(w, pattern), LAMBDA r1 :
    Then(meta_yaml_list(r1.w, pattern), LAMBDA r2 :
    R(r2.w, "ok", MergeMeta(r1.val, r2.val))))

\* launchctl.rs is_loaded
is_loaded(w, label) ==
    Then(launchctl_list(w, label), LAMBDA r :
    R(r.w, "ok", \E i \in 1..Len(r.val) : r.val[i].label = label))

\* exist without the listing: every label is taken to exist
exist_always(w, label) == R(w, "ok", TRUE)

\* launchctl.rs exist
exist(w, label) ==
    Then(list_combined(w, label), LAMBDA r :
    R(r.w, "ok", \E i \in 1..Len(r.val) : r.val[i].label = label))

\* ------------------------------------------------------------ utils.rs moves
\* the path below `to` that corresponds to path q below `from`
Rebase(q, from, to) ==
    [to EXCEPT !.rel = to.rel \o SubSeq(q.rel, Len(from.rel) + 1, Len(q.rel))]

\* the `for entry in read_dir(working_path)` loop of move_by_rename_inner:
\* directories are pushed on the stack, files are renamed into dest
RECURSIVE MoveEntries(_, _, _, _)
MoveEntries(w, entries, dest, stack) ==
    IF entries = <<>> THEN R(w, "ok", stack)
    ELSE LET path == Head(entries)
             dest_path == Child(dest, path.rel[Len(path.rel)])
         IN IF IsDir(w.fs, path)
            THEN MoveEntries(w, Tail(entries), dest, Append(stack, path))
            ELSE IF Faulty(w) \/ ~CanRename(w.fs, path, dest_path)
            THEN Err(Adv(w), "io")
            ELSE MoveEntries([Adv(w) EXCEPT !.fs = DoRename(w.fs, path, dest_path),
                                            !.own = IF path \in DOMAIN @
                                                    THEN DoRename(@, path, dest_path)
                                                    ELSE FsDrop(@, {dest_path})],
                             Tail(entries), dest, stack)

\* the `while let Some(working_path) = stack.pop()` loop: the destination
\* that is (re)created for every working path is `to`, not `dest`
RECURSIVE MoveLoop(_, _, _, _)
MoveLoop(w, stack, from, to) ==
    IF stack = <<>> THEN Ok(w)
    ELSE LET working_path == stack[Len(stack)]
             rest == SubSeq(stack, 1, Len(stack) - 1)
             dest == Rebase(working_path, from, to)
         IN With(create_dir_check(w, to), LAMBDA r1 :
            IF r1.res # "ok" THEN Err(r1.w, "io")
            ELSE IF Faulty(r1.w) \/ ~IsDir(r1.w.fs, working_path) THEN Err(Adv(r1.w), "io")
            ELSE Then(MoveEntries(Adv(r1.w), SetToSeq(Entries(r1.w.fs, working_path)),
                                  dest, rest),
                      LAMBDA r2 : MoveLoop(r2.w, r2.val, from, to)))

\* move_by_rename_inner that leaves the emptied source folder in place
move_by_rename_inner_kept(w, from, to) ==
    With(create_dir_check(w, to), LAMBDA r1 :
    IF r1.res # "ok" THEN Err(r1.w, "io")
    ELSE MoveLoop(r1.w, <<from>>, from, to))

\* utils.rs move_by_rename_inner; remove_dir_all(from).unwrap() aborts the
\* thread when the removal fails
move_by_rename_inner(w, from, to) ==
    With(create_dir_check(w, to), LAMBDA r1 :
    IF r1.res # "ok" THEN Err(r1.w, "io")
    ELSE Then(MoveLoop(r1.w, <<from>>, from, to), LAMBDA r2 :
         IF Faulty(r2.w) \/ ~Exists(r2.w.fs, from) THEN Err(Adv(r2.w), "panic")
         ELSE Ok([Adv(r2.w) EXCEPT !.fs = DoRemoveDirAll(r2.w.fs, from),
                                   !.own = DoRemoveDirAll(@, from)])))

\* utils.rs move_by_rename: every error becomes a RenameError
move_by_rename(w, from, to) ==
    With(move_by_rename_inner(w, from, to), LAMBDA r :
    IF r.res \in {"ok", "panic"} THEN r ELSE Err(r.w, "RenameError"))

\* metadata().st_uid() and st_gid() of a path
Owner(own, p) == IF p \in DOMAIN own THEN own[p] ELSE <<0, 0>>

\* get_user_group_pair_id that keeps the gid of the path when only the user
\* is given
get_user_group_pair_id_kept(w, path, username, group_name) ==
    IF ~Exists(w.fs, path) THEN Err(w, "PathDoesNotExist")
    ELSE R(w, "ok",
           <<IF username = Some("alice") THEN 1 ELSE Owner(w.own, path)[1],
             IF group_name = Some("wheel") THEN 2 ELSE Owner(w.own, path)[2]>>)

\* utils.rs get_user_group_pair_id: the host knows the user alice, uid 1
\* with primary group 1, and the group wheel, gid 2; a name it does not know
\* is taken as a name that is not given
get_user_group_pair_id(w, path, username, group_name) ==
    LET meta == Owner(w.own, path)
        user == IF username = Some("alice") THEN Some([uid |-> 1, primary_group_id |-> 1])
                ELSE None
        group == IF group_name = Some("wheel") THEN Some([gid |-> 2]) ELSE None
    IN IF ~Exists(w.fs, path) THEN Err(w, "PathDoesNotExist")
       ELSE R(w, "ok",
              IF user = None
              THEN IF group # None THEN <<meta[1], group[1].gid>> ELSE meta
              ELSE IF group = None THEN <<user[1].uid, user[1].primary_group_id>>
                   ELSE <<user[1].uid, group[1].gid>>)

\* utils.rs chown_by_name: the pair for the path, then libc::chown
chown_by_name(w, p, username, group_name) ==
    Then(get_user_group_pair_id(w, p, username, group_name), LAMBDA r :
    IF Faulty(w) THEN Err(Adv(w), "FailedToChown")
    ELSE Ok([Adv(w) EXCEPT !.own =
                [q \in ((DOMAIN @) \cup {p}) \ (IF r.val = <<0, 0>> THEN {p} ELSE {}) |->
                    IF q = p THEN r.val ELSE @[q]]]))

RECURSIVE ChownEntries(_, _, _, _, _)
ChownEntries(w, entries, stack, username, group_name) ==
    IF entries = <<>> THEN R(w, "ok", stack)
    ELSE Then(chown_by_name(w, Head(entries), username, group_name), LAMBDA r :
         ChownEntries(r.w, Tail(entries),
                      IF IsDir(w.fs, Head(entries)) THEN Append(stack, Head(entries))
                      ELSE stack, username, group_name))

RECURSIVE ChownLoop(_, _, _, _)
ChownLoop(w, stack, username, group_name) ==
    IF stack = <<>> THEN Ok(w)
    ELSE IF Faulty(w) THEN Err(Adv(w), "FailedToChown")
    ELSE Then(ChownEntries(Adv(w), SetToSeq(Entries(w.fs, stack[Len(stack)])),
                           SubSeq(stack, 1, Len(stack) - 1), username, group_name),
              LAMBDA r : ChownLoop(r.w, r.val, username, group_name))

\* utils.rs chown_by_name_recursive
chown_by_name_recursive(w, p, username, group_name) ==
    Then(chown_by_name(w, p, username, group_name), LAMBDA r :
    IF IsDir(r.w.fs, p) THEN ChownLoop(r.w, <<p>>, username, group_name) ELSE r)

\* -------------------------------------------------------- declarative texts
\* a Config entry: its option kind and its payload (strings, the calendar
\* intervals or the resource limit of the kind, or a number)
Entry(kind, strs, num) == [kind |-> kind, strs |-> strs, num |-> num]

ProgramArguments(args) == Entry("ProgramArguments", args, 0)

WorkingDirectory(path) == Entry("WorkingDirectory", <<path>>, 0)

StandardOutPath(path) == Entry("StandardOutPath", <<path>>, 0)

StandardErrorPath(path) == Entry("StandardErrorPath", <<path>>, 0)

StartInterval(t) == Entry("StartInterval", <<>>, t)

\* the program file the texts name, and a log file outside the root directories
ProgPath == <<"/", "bin", "p">>
UserLog == <<"/", "tmp", "o.log">>

\* the texts that are submitted, by name
Texts == {"ya", "ya2", "yb", "ybad", "yw", "yschema"}

\* serde_yaml::from_str::<Configuration>: the document a text denotes
Doc(t) ==
    CASE t = "ya" ->
           [schema |-> TRUE, label |-> ShortA, program |-> ProgPath,
            configuration |-> <<ProgramArguments(<< <<TASK_ROOT_ALIAS, "run.sh">>, <<"-v">> >>)>>]
      [] t = "ya2" ->
           [schema |-> TRUE, label |-> ShortA, program |-> ProgPath,
            configuration |-> <<StandardOutPath(UserLog),
                                ProgramArguments(<< <<"x", TASK_ROOT_ALIAS>> >>),
                                StandardOutPath(UserLog)>>]
      [] t = "yb" ->
           [schema |-> TRUE, label |-> ShortB, program |-> ProgPath,
            configuration |-> <<ProgramArguments(<< <<TASK_ROOT_ALIAS, "b.sh">>,
                                                    <<"x", TASK_ROOT_ALIAS>> >>),
                                StartInterval(1)>>]
      [] t = "ybad" ->
           [schema |-> TRUE, label |-> ShortA, program |-> ProgPath,
            configuration |-> <<StartInterval(-1)>>]
      [] t = "yw" ->
           [schema |-> TRUE, label |-> ShortA, program |-> ProgPath,
            configuration |-> <<WorkingDirectory(<<TASK_ROOT_ALIAS, "w">>)>>]
      [] OTHER ->
           [schema |-> FALSE, label |-> <<>>, program |-> <<>>, configuration |-> <<>>]

\* LABEL_REG on a label: one or more non-empty segments of [A-Za-z0-9_]
SegOk(s) == s \in {"a", "b", "com", "tasker", "tasks", "apple"}

check_label(label) == label # <<>> /\ \A i \in 1..Len(label) : SegOk(label[i])

\* Configuration::check_program: an absolute path of an existing file
check_program(prog, program) ==
    program # <<>> /\ Head(program) = "/" /\ program = ProgPath /\ prog

\* Path::is_dir and Path::is_file on a path given in a text
IsDirStr(path) == path \in {<<"/", "tmp">>}

IsFileStr(path) == path \in {UserLog}

\* check_option_range_return_err!: the field is present and outside lo..hi
OutOfRange(field, lo, hi) == field # None /\ (field[1] < lo \/ field[1] > hi)

\* check_option_range_return_err! with i64::MAX as hi, which no i64 exceeds
Below(field, lo) == field # None /\ field[1] < lo

\* CalendarInterval::check
CalendarInterval_check(cal) ==
    ~ \/ OutOfRange(cal.minute, 0, 59)
      \/ OutOfRange(cal.hour, 0, 23)
      \/ OutOfRange(cal.day, 1, 31)
      \/ OutOfRange(cal.weekday, 0, 7)
      \/ OutOfRange(cal.month, 1, 12)

\* ResourceLimit::check: cpu is not looked at
ResourceLimit_check(limit) ==
    ~ \/ Below(limit.file_size, 0)
      \/ Below(limit.number_of_files, 0)
      \/ OutOfRange(limit.number_of_processes, 0, 500)
      \/ Below(limit.resident_set_size, 0)
      \/ OutOfRange(limit.stack, 0, 67104768)

\* Config::check: "ok" or the error of the entry
check(c) ==
    CASE c.kind \in {"SoftResourceLimit", "HardResourceLimits"} ->
           IF ~ResourceLimit_check(c.strs[1]) THEN "ConfigRangeError" ELSE "ok"
      [] c.kind = "StartCalendarInterval" ->
           IF \E i \in 1..Len(c.strs) : ~CalendarInterval_check(c.strs[i])
           THEN "ConfigRangeError" ELSE "ok"
      [] c.kind \in {"ExitTimeOut", "StartInterval"} ->
           IF c.num < 0 THEN "ConfigRangeError" ELSE "ok"
      [] c.kind \in {"WorkingDirectory", "RootDirectory"} ->
           IF ~IsDirStr(c.strs[1]) THEN "ConfigPathError" ELSE "ok"
      [] c.kind \in {"StandardInPath", "StandardOutPath", "StandardErrorPath"} ->
           IF ~IsFileStr(c.strs[1]) THEN "ConfigPathError" ELSE "ok"
      [] OTHER -> "ok"

\* add_config that appends whatever the list holds
add_config_pushed(config, c) ==
    [config EXCEPT !.configuration = Append(config.configuration, c)]

\* Configuration::add_config: replace the entry of the same kind or append
add_config(config, c) ==
    LET conf == config.configuration
        same == {i \in 1..Len(conf) : conf[i].kind = c.kind}
    IN IF same # {}
       THEN LET i == CHOOSE k \in same : \A m \in same : k <= m
            IN [config EXCEPT !.configuration = [conf EXCEPT ![i] = c]]
       ELSE [config EXCEPT !.configuration = Append(conf, c)]

\* into_iter().filter(|c| c.to_string() != config_name).collect()
RECURSIVE FilterNot(_, _)
FilterNot(configuration, config_name) ==
    IF configuration = <<>> THEN <<>>
    ELSE IF Head(configuration).kind # config_name
    THEN <<Head(configuration)>> \o FilterNot(Tail(configuration), config_name)
    ELSE FilterNot(Tail(configuration), config_name)

\* remove_config that empties the list
remove_config_cleared(config, config_name) == [config EXCEPT !.configuration = <<>>]

\* Configuration::remove_config: the entries whose name is not config_name
remove_config(config, config_name) ==
    [config EXCEPT !.configuration = FilterNot(@, config_name)]

\* Configuration::append_domain
append_domain(label) == TASKER_TASK_NAME \o label

RECURSIVE AddChecked(_, _)
AddChecked(new_config, cs) ==
    IF cs = <<>> THEN [res |-> "ok", val |-> new_config]
    ELSE IF check(Head(cs)) # "ok" THEN [res |-> check(Head(cs)), val |-> new_config]
    ELSE AddChecked(add_config(new_config, Head(cs)), Tail(cs))

\* the value of a from_yaml that returned an error
NoConfiguration == [label |-> <<>>, program |-> <<>>, configuration |-> <<>>]

\* from_document that pushes every checked entry instead of merging it
from_document_pushed(d, prog) ==
    IF ~d.schema THEN [res |-> "YamlError", val |-> NoConfiguration]
    ELSE IF ~check_label(d.label) THEN [res |-> "ConfigLabelError", val |-> NoConfiguration]
    ELSE IF ~check_program(prog, d.program)
         THEN [res |-> "ConfigProgramError", val |-> NoConfiguration]
    ELSE IF \E i \in 1..Len(d.configuration) : check(d.configuration[i]) # "ok"
         THEN [res |-> "ConfigRangeError", val |-> NoConfiguration]
    ELSE [res |-> "ok", val |-> [label |-> append_domain(d.label), program |-> d.program,
                                 configuration |-> d.configuration]]

\* from_document that looks at the program before the label
from_document_program_first(d, prog) ==
    IF ~d.schema THEN [res |-> "YamlError", val |-> NoConfiguration]
    ELSE IF ~check_program(prog, d.program)
         THEN [res |-> "ConfigProgramError", val |-> NoConfiguration]
    ELSE IF ~check_label(d.label) THEN [res |-> "ConfigLabelError", val |-> NoConfiguration]
    ELSE With(AddChecked([label |-> append_domain(d.label), program |-> d.program,
                          configuration |-> <<>>], d.configuration),
              LAMBDA r : IF r.res # "ok" THEN [res |-> r.res, val |-> NoConfiguration] ELSE r)

\* Configuration::from_yaml on the document serde_yaml read from the text,
\* given whether the program file exists
from_document(d, prog) ==
    IF ~d.schema THEN [res |-> "YamlError", val |-> NoConfiguration]
    ELSE IF ~check_label(d.label) THEN [res |-> "ConfigLabelError", val |-> NoConfiguration]
    ELSE IF ~check_program(prog, d.program)
         THEN [res |-> "ConfigProgramError", val |-> NoConfiguration]
    ELSE With(AddChecked([label |-> append_domain(d.label), program |-> d.program,
                          configuration |-> <<>>], d.configuration),
              LAMBDA r : IF r.res # "ok" THEN [res |-> r.res, val |-> NoConfiguration] ELSE r)

\* a mapping of a text is a set of <<key, type, number>>; the field a derived
\* Deserialize reads from it for an Option<i64>: keys it does not know are
\* passed over, there being no deny_unknown_fields
Num(map, key) ==
    IF \E p \in map : p[1] = key THEN Some((CHOOSE p \in map : p[1] = key)[3]) ELSE None

\* a field of the struct is given a value that is no integer
WrongShape(map, fields) == \E p \in map : p[1] \in fields /\ p[2] # "int"

\* Deserialize of Config on an item of the list, a kind with a scalar or
\* with mappings under it: whether the item is read
Config_visit(item) ==
    CASE item.kind \in {"ExitTimeOut", "StartInterval"} -> item.scalar[1] = "int"
      [] item.kind = "StartCalendarInterval" ->
           \A i \in 1..Len(item.maps) :
              ~WrongShape(item.maps[i], {"Minute", "Hour", "Day", "Weekday", "Month"})
      [] item.kind \in {"SoftResourceLimit", "HardResourceLimits"} ->
           /\ Len(item.maps) = 1
           /\ ~WrongShape(item.maps[1], {"CPU", "FileSize", "NumberOfFiles",
                                          "NumberOfProcesses", "ResidentSetSize", "Stack"})
      [] OTHER -> FALSE

\* Deserialize of Config on an item that is read: the entry
Config_de(item) ==
    CASE item.kind \in {"ExitTimeOut", "StartInterval"} ->
           Entry(item.kind, <<>>, item.scalar[2])
      [] item.kind = "StartCalendarInterval" ->
           Entry(item.kind,
                 [i \in 1..Len(item.maps) |->
                    [minute |-> Num(item.maps[i], "Minute"),
                     hour |-> Num(item.maps[i], "Hour"),
                     day |-> Num(item.maps[i], "Day"),
                     weekday |-> Num(item.maps[i], "Weekday"),
                     month |-> Num(item.maps[i], "Month")]], 0)
      [] OTHER ->
           Entry(item.kind,
                 <<[cpu |-> Num(item.maps[1], "CPU"),
                    file_size |-> Num(item.maps[1], "FileSize"),
                    number_of_files |-> Num(item.maps[1], "NumberOfFiles"),
                    number_of_processes |-> Num(item.maps[1], "NumberOfProcesses"),
                    resident_set_size |-> Num(item.maps[1], "ResidentSetSize"),
                    stack |-> Num(item.maps[1], "Stack")]>>, 0)

\* serde_yaml::from_str::<Configuration> on a text given by the keys of its
\* top mapping, the label and program under Label and Program and the
\* items under Configuration: the three fields must be there, every item
\* must be read
from_str(yaml) ==
    IF /\ {"Label", "Program", "Configuration"} \subseteq yaml.top
       /\ \A i \in 1..Len(yaml.items) : Config_visit(yaml.items[i])
    THEN [schema |-> TRUE, label |-> yaml.label, program |-> yaml.program,
          configuration |-> [i \in 1..Len(yaml.items) |-> Config_de(yaml.items[i])]]
    ELSE [schema |-> FALSE, label |-> <<>>, program |-> <<>>, configuration |-> <<>>]

\* Configuration::from_yaml
from_yaml(t, prog) == from_document(Doc(t), prog)

\* to_yaml that writes the label as it is held
to_yaml_prefixed(config) ==
    [schema |-> TRUE, label |-> config.label, program |-> config.program,
     configuration |-> config.configuration]

\* Configuration::to_yaml: the document of serde_yaml::to_string with the
\* namespace and its dot taken off a Label line that starts with them
to_yaml(config) ==
    [schema |-> TRUE,
     label |-> IF Len(config.label) > Len(TASKER_TASK_NAME)
                    /\ SubSeq(config.label, 1, Len(TASKER_TASK_NAME)) = TASKER_TASK_NAME
               THEN SubSeq(config.label, Len(TASKER_TASK_NAME) + 1, Len(config.label))
               ELSE config.label,
     program |-> config.program,
     configuration |-> config.configuration]

\* Configuration::to_plist: the keys of the descriptor, Label and Program
\* followed by one key for every entry
to_plist(config) ==
    <<Entry("Label", <<config.label>>, 0), Entry("Program", <<config.program>>, 0)>>
        \o config.configuration

\* ------------------------------------------------------- launchctl.rs steps
\* the string of a path: absolute, below the tasker root
PathStr(p) == <<"/", p.area>> \o p.label \o p.rel

\* PathBuf::join: an absolute argument replaces the base
Join(base, rest) == IF rest # <<>> /\ Head(rest) = "/" THEN rest ELSE base \o rest

\* replace_root_alias that leaves every path as it was written
replace_root_alias_kept(path, task_folder) == path

\* launchctl.rs replace_root_alias
replace_root_alias(path, task_folder) ==
    IF path # <<>> /\ Head(path) = TASK_ROOT_ALIAS
    THEN Join(PathStr(task_folder), Tail(path))
    ELSE path

\* launchctl.rs replace_task_root_alias
replace_task_root_alias(config, task_label) ==
    LET task_folder == get_task_folder_name(task_label)
        conf == config.configuration
    IN [config EXCEPT !.configuration =
          [i \in 1..Len(conf) |->
             IF conf[i].kind \in {"ProgramArguments", "WorkingDirectory", "RootDirectory"}
             THEN [conf[i] EXCEPT !.strs =
                     [k \in 1..Len(conf[i].strs) |->
                        replace_root_alias(conf[i].strs[k], task_folder)]]
             ELSE conf[i]]]

\* launchctl.rs set_working_directory_as_root_alias
set_working_directory_as_root_alias(config) ==
    IF \E i \in 1..Len(config.configuration) :
           config.configuration[i].kind = "WorkingDirectory"
    THEN config
    ELSE add_config(config, WorkingDirectory(<<TASK_ROOT_ALIAS>>))

\* launchctl.rs try_clear_output: the RenameError is dropped
try_clear_output(w, l) ==
    With(move_by_rename(w, get_output_folder_name(l), Child(get_trash_folder_name(l), "out")),
         LAMBDA r : IF r.res = "panic" THEN r ELSE Ok(r.w))

\* process_config that keeps a redirection path the text gives
process_config_redirect_kept(w, config0) ==
    LET label == config0.label
        task_output_name == get_output_folder_name(label)
        kinds == {config0.configuration[i].kind : i \in 1..Len(config0.configuration)}
        aliased == replace_task_root_alias(set_working_directory_as_root_alias(config0), label)
        out == IF "StandardOutPath" \in kinds THEN aliased
               ELSE add_config(aliased,
                               StandardOutPath(PathStr(Child(task_output_name, STD_OUT_FILE))))
    IN Then(try_clear_output(w, label), LAMBDA r1 :
       Then(create_dir_check(r1.w, task_output_name), LAMBDA r2 :
       Then(chown_by_name_recursive(r2.w, task_output_name, None, None), LAMBDA r3 :
       R(r3.w, "ok",
         add_config(out,
                    StandardErrorPath(PathStr(Child(task_output_name, STD_ERR_FILE))))))))

\* launchctl.rs process_config; val is the processed configuration
process_config(w, config0) ==
    LET label == config0.label
        task_output_name == get_output_folder_name(label)
    IN Then(try_clear_output(w, label), LAMBDA r1 :
       Then(create_dir_check(r1.w, task_output_name), LAMBDA r2 :
       Then(chown_by_name_recursive(r2.w, task_output_name, None, None), LAMBDA r3 :
       R(r3.w, "ok",
         add_config(
            add_config(
               replace_task_root_alias(set_working_directory_as_root_alias(config0), label),
               StandardOutPath(PathStr(Child(task_output_name, STD_OUT_FILE)))),
            StandardErrorPath(PathStr(Child(task_output_name, STD_ERR_FILE))))))))

\* launchctl.rs load_inner
load_inner(w, l) ==
    Then(is_loaded(w, l), LAMBDA r1 :
    IF r1.val THEN Err(r1.w, "FailedToLoadTask")
    ELSE Then(exist(r1.w, l), LAMBDA r2 :
         IF ~r2.val THEN Err(r2.w, "TaskDoesNotExist")
         ELSE LaunchctlLoad(r2.w, l)))

\* place_plist_and_load without the unload of a loaded label
place_plist_and_load_straight(w, config) ==
    With(try_remove_plist(w, config.label), LAMBDA w1 :
    IF Faulty(w1) THEN Err(Adv(w1), "ErrorCreatingPlist")
    ELSE With([Adv(w1) EXCEPT !.plist =
                 [k \in (DOMAIN w1.plist) \cup {config.label} |->
                    IF k = config.label THEN <<>> ELSE w1.plist[k]]], LAMBDA created :
    IF Faulty(created) THEN Err(Adv(created), "ErrorCreatingPlist")
    ELSE load_inner([Adv(created) EXCEPT !.plist[config.label] = to_plist(config)],
                    config.label)))

\* launchctl.rs place_plist_and_load: File::create truncates the descriptor
\* file, write_all fills it
place_plist_and_load(w, config) ==
    With(try_remove_plist(w, config.label), LAMBDA w1 :
    IF Faulty(w1) THEN Err(Adv(w1), "ErrorCreatingPlist")
    ELSE With([Adv(w1) EXCEPT !.plist =
                 [k \in (DOMAIN w1.plist) \cup {config.label} |->
                    IF k = config.label THEN <<>> ELSE w1.plist[k]]], LAMBDA created :
    IF Faulty(created) THEN Err(Adv(created), "ErrorCreatingPlist")
    ELSE Then(is_loaded([Adv(created) EXCEPT !.plist[config.label] = to_plist(config)],
                        config.label), LAMBDA r3 :
         Then(IF r3.val THEN unload_inner(r3.w, config.label) ELSE Ok(r3.w), LAMBDA r4 :
         load_inner(r4.w, config.label)))))

\* launchctl.rs view_yaml; val is the text of the meta copy
view_yaml(w, l) ==
    Then(exist(w, l), LAMBDA r1 :
    IF ~r1.val THEN Err(r1.w, "TaskDoesNotExist")
    ELSE IF Faulty(r1.w) \/ ~IsFile(r1.w.fs, MetaYaml(l)) THEN Err(Adv(r1.w), "NonUtfError")
    ELSE R(Adv(r1.w), "ok", r1.w.fs[MetaYaml(l)]))

\* launchctl.rs move_yaml_to_meta
move_yaml_to_meta(w, yaml, label) ==
    IF Faulty(w) \/ ~CanCopy(w.fs, yaml, MetaYaml(label))
    THEN Err(Adv(w), "ErrorMoveYamlToMeta")
    ELSE With([Adv(w) EXCEPT !.fs = DoCopy(w.fs, yaml, MetaYaml(label))], LAMBDA copied :
         IF Faulty(copied) THEN Err(Adv(copied), "ErrorMoveYamlToMeta")
         ELSE Ok([Adv(copied) EXCEPT !.fs = FsDrop(copied.fs, {yaml})]))

\* launchctl.rs update_yaml_in_meta
update_yaml_in_meta(w, yaml_content, label) ==
    IF Faulty(w) THEN Err(Adv(w), "FailedToUpdateMetaYaml")
    ELSE Ok([Adv(w) EXCEPT !.fs = FsPut(w.fs, MetaYaml(label), yaml_content)])

\* ----------------------------------------------------------------- archives
ZipEntry(name, dir, data) == [name |-> name, dir |-> dir, data |-> data]

\* the archives that are uploaded, by name
Zips == {"zipA", "zipB", "zipN", "zipBad", "zip0", "zip2"}

\* the entries of an archive in the order the archive lists them
Zip(z) ==
    CASE z = "zipA" -> <<ZipEntry(<<"a.yaml">>, FALSE, "ya"),
                         ZipEntry(<<"run.sh">>, FALSE, "sh")>>
      [] z = "zipB" -> <<ZipEntry(<<MACOSX>>, TRUE, "DIR"),
                         ZipEntry(<<MACOSX, "b.yaml">>, FALSE, "rsrc"),
                         ZipEntry(<<"b.yaml">>, FALSE, "yb"),
                         ZipEntry(<<"b.sh">>, FALSE, "sh")>>
      [] z = "zipN" -> <<ZipEntry(<<"a.yaml">>, FALSE, "ya2"),
                         ZipEntry(<<"d">>, TRUE, "DIR"),
                         ZipEntry(<<"d", "g">>, FALSE, "g")>>
      [] z = "zip0" -> <<ZipEntry(<<"run.sh">>, FALSE, "sh"),
                         ZipEntry(<<MACOSX>>, TRUE, "DIR"),
                         ZipEntry(<<MACOSX, "a.yaml">>, FALSE, "rsrc")>>
      [] z = "zip2" -> <<ZipEntry(<<"a.yaml">>, FALSE, "ya"),
                         ZipEntry(<<"b.yaml">>, FALSE, "yb"),
                         ZipEntry(<<"run.sh">>, FALSE, "sh")>>
      [] z = "zipR" -> <<ZipEntry(<<"a.yaml">>, FALSE, "ya"),
                         ZipEntry(<<"d", "g">>, FALSE, "g"),
                         ZipEntry(<<"d">>, TRUE, "DIR")>>
      [] z = "zipUp" -> <<ZipEntry(<<"a.yaml">>, FALSE, "ya"),
                          ZipEntry(<<"..", "x">>, FALSE, "up"),
                          ZipEntry(<<"/", "meta", "x">>, FALSE, "abs")>>
      [] OTHER -> <<ZipEntry(<<"x.yaml">>, FALSE, "ybad")>>

\* Path::extension() == "yaml" on a file name
HasYamlExt(name) == name \in {"a.yaml", "b.yaml", "x.yaml", YamlName}

\* out_dir.join(f.name()) as the file system resolves it, out_dir being a
\* folder right below one of the root directories: an absolute name
\* replaces out_dir, a name that starts with .. names a path next to it
JoinName(out_dir, name) ==
    IF Head(name) = "/" THEN [area |-> name[2], label |-> SubSeq(name, 3, Len(name)),
                              rel |-> <<>>]
    ELSE IF Head(name) = ".." /\ out_dir.rel = <<>>
    THEN [area |-> out_dir.area, label |-> Tail(name), rel |-> <<>>]
    ELSE [out_dir EXCEPT !.rel = @ \o name]

RECURSIVE DecompressEntries(_, _, _)
DecompressEntries(w, entries, out_dir) ==
    IF entries = <<>> THEN Ok(w)
    ELSE LET f == Head(entries)
             new_path == JoinName(out_dir, f.name)
         IN IF Head(f.name) = MACOSX THEN DecompressEntries(w, Tail(entries), out_dir)
            ELSE IF f.dir
            THEN With(create_dir_check(w, new_path), LAMBDA r :
                 IF r.res # "ok" THEN Err(r.w, "DecompressionError")
                 ELSE DecompressEntries(r.w, Tail(entries), out_dir))
            ELSE IF Faulty(w) \/ ~ParentIsDir(w.fs, new_path) \/ IsDir(w.fs, new_path)
            THEN Err(Adv(w), "DecompressionError")
            ELSE With([Adv(w) EXCEPT !.fs = FsPut(w.fs, new_path, "")], LAMBDA created :
                 IF Faulty(created) THEN Err(Adv(created), "panic")
                 ELSE DecompressEntries(
                         [Adv(created) EXCEPT !.fs = FsPut(created.fs, new_path, f.data)],
                         Tail(entries), out_dir))

\* utils.rs decompress: open the archive, create out_dir, write the entries;
\* std::io::copy(..).unwrap() aborts the thread when the copy fails
decompress(w, z, out_dir) ==
    IF Faulty(w) THEN Err(Adv(w), "DecompressionError")
    ELSE With(create_dir_check(Adv(w), out_dir), LAMBDA r :
         IF r.res # "ok" THEN Err(r.w, "DecompressionError")
         ELSE DecompressEntries(r.w, Zip(z), out_dir))

\* launchctl.rs find_yaml_file; val is the path of the first entry found
find_yaml_file(w, unzipped_folder) ==
    LET found == {q \in Entries(w.fs, unzipped_folder) : HasYamlExt(q.rel[Len(q.rel)])}
    IN IF Faulty(w) \/ ~IsDir(w.fs, unzipped_folder) THEN Err(Adv(w), "YamlNotFound")
       ELSE IF found = {} THEN Err(Adv(w), "YamlNotFound")
       ELSE R(Adv(w), "ok", Head(SetToSeq(found)))

\* ------------------------------------------------- launchctl.rs operations
\* unload_task that reports success for a label that is not loaded
unload_task_lenient(w, l) ==
    Then(is_loaded(w, l), LAMBDA r1 :
    Then(IF r1.val THEN unload_inner(r1.w, l) ELSE Ok(r1.w), LAMBDA r2 :
    Ok(try_remove_plist(r2.w, l))))

\* launchctl.rs unload_task
unload_task(w, l) ==
    Then(is_loaded(w, l), LAMBDA r1 :
    Then(IF r1.val THEN unload_inner(r1.w, l) ELSE Ok(r1.w), LAMBDA r2 :
    With(try_remove_plist(r2.w, l), LAMBDA w3 :
    IF ~r1.val THEN Err(w3, "FailedToUnloadTask") ELSE Ok(w3))))

\* launchctl.rs load_task
load_task(w, l) ==
    Then(view_yaml(w, l), LAMBDA r1 :
    With(from_yaml(r1.val, r1.w.prog), LAMBDA c :
    IF c.res # "ok" THEN Err(r1.w, c.res)
    ELSE Then(process_config(r1.w, c.val), LAMBDA r2 :
         place_plist_and_load(r2.w, r2.val))))

\* the two steps of delete_task on the meta copy: std::fs::copy into the
\* trash folder, then std::fs::remove_file, both with their errors dropped
trash_meta_yaml(w, l) ==
    With(IF Faulty(w) \/ ~CanCopy(w.fs, MetaYaml(l), Child(get_trash_folder_name(l), YamlName))
         THEN Adv(w)
         ELSE [Adv(w) EXCEPT !.fs = DoCopy(w.fs, MetaYaml(l),
                                           Child(get_trash_folder_name(l), YamlName))],
         LAMBDA w1 :
         IF Faulty(w1) \/ ~IsFile(w1.fs, MetaYaml(l)) THEN Adv(w1)
         ELSE [Adv(w1) EXCEPT !.fs = FsDrop(w1.fs, {MetaYaml(l)})])

\* launchctl.rs delete_task: every error is dropped, an abort is not
delete_task(w, l) ==
    With(unload_task(w, l), LAMBDA r1 :
    IF r1.res = "panic" THEN r1
    ELSE With(move_by_rename(r1.w, get_task_folder_name(l), get_trash_folder_name(l)),
              LAMBDA r2 :
    IF r2.res = "panic" THEN r2
    ELSE With(try_clear_output(trash_meta_yaml(r2.w, l), l), LAMBDA r3 :
    IF r3.res = "panic" THEN r3 ELSE Ok(r3.w))))

\* launchctl.rs create_task
create_task(w, z) ==
    Then(try_to_remove_folder(w, Scratch), LAMBDA r1 :
    Then(decompress(r1.w, z, Scratch), LAMBDA r2 :
    Then(find_yaml_file(r2.w, Scratch), LAMBDA r3 :
    IF Faulty(r3.w) \/ ~IsFile(r3.w.fs, r3.val) THEN Err(Adv(r3.w), "YamlError")
    ELSE With(from_yaml(r3.w.fs[r3.val], r3.w.prog), LAMBDA c :
    IF c.res # "ok" THEN Err(Adv(r3.w), c.res)
    ELSE Then(process_config(Adv(r3.w), c.val), LAMBDA r4 :
    Then(move_yaml_to_meta(r4.w, r3.val, c.val.label), LAMBDA r5 :
    Then(create_dir_check(r5.w, get_task_folder_name(c.val.label)), LAMBDA r6 :
    Then(move_by_rename(r6.w, Scratch, get_task_folder_name(c.val.label)), LAMBDA r7 :
    Then(chown_by_name_recursive(r7.w, get_task_folder_name(c.val.label), None, None),
         LAMBDA r8 :
    place_plist_and_load(r8.w, r4.val))))))))))

\* update_yaml with the reload of launchctl.rs:276 made unconditional
update_yaml_reload_always(w, yaml_content, this_label) ==
    With(from_yaml(yaml_content, w.prog), LAMBDA c :
    IF c.res # "ok" THEN Err(w, c.res)
    ELSE IF c.val.label # this_label THEN Err(w, "WrongLabelInYaml")
    ELSE Then(exist(w, c.val.label), LAMBDA r1 :
    IF ~r1.val THEN Err(r1.w, "TaskDoesNotExist")
    ELSE Then(is_loaded(r1.w, c.val.label), LAMBDA r2 :
    Then(IF r2.val THEN unload_inner(r2.w, c.val.label) ELSE Ok(r2.w), LAMBDA r3 :
    Then(process_config(r3.w, c.val), LAMBDA r4 :
    Then(update_yaml_in_meta(r4.w, yaml_content, c.val.label), LAMBDA r5 :
    Then(place_plist_and_load(r5.w, r4.val), LAMBDA r6 :
    Ok(r6.w))))))))

\* update_yaml with the meta copy written before the text is validated
update_yaml_write_first(w, yaml_content, this_label) ==
    Then(update_yaml_in_meta(w, yaml_content, this_label), LAMBDA r0 :
    With(from_yaml(yaml_content, r0.w.prog), LAMBDA c :
    IF c.res # "ok" THEN Err(r0.w, c.res)
    ELSE IF c.val.label # this_label THEN Err(r0.w, "WrongLabelInYaml")
    ELSE Then(exist(r0.w, c.val.label), LAMBDA r1 :
    IF ~r1.val THEN Err(r1.w, "TaskDoesNotExist")
    ELSE Then(is_loaded(r1.w, c.val.label), LAMBDA r2 :
    Then(IF r2.val THEN unload_inner(r2.w, c.val.label) ELSE Ok(r2.w), LAMBDA r3 :
    Then(process_config(r3.w, c.val), LAMBDA r4 :
    Then(IF r2.val THEN place_plist_and_load(r4.w, r4.val) ELSE Ok(r4.w), LAMBDA r6 :
    Ok(r6.w))))))))

\* launchctl.rs update_yaml
update_yaml(w, yaml_content, this_label) ==
    With(from_yaml(yaml_content, w.prog), LAMBDA c :
    IF c.res # "ok" THEN Err(w, c.res)
    ELSE IF c.val.label # this_label THEN Err(w, "WrongLabelInYaml")
    ELSE Then(exist(w, c.val.label), LAMBDA r1 :
    IF ~r1.val THEN Err(r1.w, "TaskDoesNotExist")
    ELSE Then(is_loaded(r1.w, c.val.label), LAMBDA r2 :
    Then(IF r2.val THEN unload_inner(r2.w, c.val.label) ELSE Ok(r2.w), LAMBDA r3 :
    Then(process_config(r3.w, c.val), LAMBDA r4 :
    Then(update_yaml_in_meta(r4.w, yaml_content, c.val.label), LAMBDA r5 :
    Then(IF r2.val THEN place_plist_and_load(r5.w, r4.val) ELSE Ok(r5.w), LAMBDA r6 :
    Ok(r6.w))))))))

\* ------------------------------------------------------------ state machine
\* fs, plist, jobs, prog: the file system, the descriptor files, the job table
\* of launchd and the existence of the program file; last: the operation that
\* ran last, its arguments, its result, its launchctl invocations and the
\* labels that were loaded and that had a meta copy when it was called; nops:
\* the number of operations and host events so far; nfaults: the number of steps that failed
VARIABLES fs, plist, jobs, prog, last, nops, nfaults

\* config: the Configuration a caller holds (None before from_yaml returned
\* one); ENVIRONMENT: the static of initialize.rs; callers: the position of
\* every thread inside get_environment and what it got; ninit: the number of
\* runs of Env::init; owner: the (uid, gid) of the paths that do not belong
\* to (0, 0), the user the server runs as; running: the operations that
\* run at the same time on the worker threads of the server, each with the
\* step it is at and its local variables
VARIABLES config, ENVIRONMENT, callers, ninit, owner, running

vars ==
    <<fs, plist, jobs, prog, last, nops, nfaults, config, ENVIRONMENT, callers, ninit, owner,
      running>>

\* the variables of the configuration value and of the environment static
others == <<config, ENVIRONMENT, callers, ninit, running>>

\* the threads that call get_environment
MaxThreads == 2

Threads == 1..MaxThreads

\* the labels that have a meta copy
MetaLabels(f) == {p.label : p \in {q \in DOMAIN f : q.area = "meta"}}

NoCall == [op |-> "none", label |-> <<>>, arg |-> "", res |-> "ok", calls |-> <<>>,
           loaded |-> {}, known |-> {}]

\* the operation op on label l with text or archive a, from world w
Run(op, l, a, w) ==
    CASE op = "create" -> create_task(w, a)
      [] op = "update" -> update_yaml(w, a, l)
      [] op = "load" -> load_task(w, l)
      [] op = "unload" -> unload_task(w, l)
      [] op = "move" -> move_by_rename(w, get_task_folder_name(l), get_trash_folder_name(l))
      [] op = "chown" -> chown_by_name_recursive(w, get_task_folder_name(l), a[1], a[2])
      [] op = "unzip" -> decompress(w, a, get_trash_folder_name(l))
      [] OTHER -> delete_task(w, l)

SetMax(S) == IF S = {} THEN 0 ELSE CHOOSE x \in S : \A y \in S : y <= x

SetMin(S) == CHOOSE x \in S : \A y \in S : x <= y

\* the results of the operation from the current state under every set of
\* failing steps that extends FS and keeps the behaviour within MaxFaults
\* failures; a step that the run under FS does not reach cannot fail
RECURSIVE Outcomes(_, _, _, _)
Outcomes(op, l, a, FS) ==
    With(Run(op, l, a, [World(fs, plist, jobs, prog, FS) EXCEPT !.own = owner]), LAMBDA r :
         {r} \cup
         IF nfaults + Cardinality(FS) < MaxFaults
         THEN UNION {Outcomes(op, l, a, FS \cup {k}) : k \in (SetMax(FS) + 1)..r.w.tick}
         ELSE {})

\* one call of an operation, run to its return (or to its abort)
Call(op, l, a) ==
    /\ nops < MaxOps
    /\ \E r \in Outcomes(op, l, a, {}) :
          /\ fs' = r.w.fs
          /\ plist' = r.w.plist
          /\ jobs' = r.w.jobs
          /\ last' = [op |-> op, label |-> l, arg |-> a, res |-> r.res, calls |-> r.w.calls,
                       loaded |-> DOMAIN jobs, known |-> MetaLabels(fs)]
          /\ nfaults' = nfaults + Cardinality(r.w.F)
          /\ owner' = r.w.own
    /\ nops' = nops + 1
    /\ UNCHANGED <<prog, others>>

Create == \E z \in Zips : Call("create", <<>>, z)

Update == \E t \in Texts, l \in Labels : Call("update", l, t)

Load == \E l \in Labels : Call("load", l, "")

Unload == \E l \in Labels : Call("unload", l, "")

Delete == \E l \in Labels : Call("delete", l, "")

\* launchd starts a loaded job: it gets a pid and its stdout file is opened
JobStart ==
    \E l \in DOMAIN jobs :
       /\ nops < MaxOps
       /\ jobs[l].pid = "-"
       /\ jobs' = [jobs EXCEPT ![l].pid = "7"]
       /\ fs' = IF IsDir(fs, get_output_folder_name(l))
                THEN FsPut(fs, Child(get_output_folder_name(l), STD_OUT_FILE), "log")
                ELSE fs
       /\ last' = NoCall
       /\ nops' = nops + 1
       /\ UNCHANGED <<plist, prog, nfaults, others, owner>>

\* the program file is removed from the host
ProgramRemoved ==
    /\ nops < MaxOps
    /\ prog
    /\ prog' = FALSE
    /\ last' = NoCall
    /\ nops' = nops + 1
    /\ UNCHANGED <<fs, plist, jobs, nfaults, others, owner>>

\* no configuration is held, the static is None and no thread is inside
\* get_environment
OthersInit ==
    /\ config = None
    /\ ENVIRONMENT = None
    /\ callers = [t \in Threads |-> [pc |-> "out", env |-> None, got |-> None]]
    /\ ninit = 0
    /\ owner = <<>>
    /\ running = <<>>

Init ==
    /\ fs = <<>>
    /\ plist = <<>>
    /\ jobs = <<>>
    /\ prog = TRUE
    /\ last = NoCall
    /\ nops = 0
    /\ nfaults = 0
    /\ OthersInit

Next ==
    \/ Create
    \/ Update
    \/ Load
    \/ Unload
    \/ Delete
    \/ JobStart
    \/ ProgramRemoved

Spec == Init /\ [][Next]_vars

\* ------------------------------------------------------------------ claims
Loaded(l) == l \in DOMAIN jobs

HasMeta(l) == Exists(fs, MetaYaml(l))

\* the operation that ran last invoked the verb on label l
Invoked(verb, l) ==
    \E i \in 1..Len(last.calls) : last.calls[i].verb = verb /\ last.calls[i].label = l

\* C1: after update(text, L) returns success, L is loaded if and only if it was
\* loaded when update was called, and when it was not loaded update has not
\* invoked the load verb
C1_UpdateKeepsLoadedStatus ==
    (last.op = "update" /\ last.res = "ok") =>
        /\ Loaded(last.label) <=> (last.label \in last.loaded)
        /\ (last.label \notin last.loaded) =>
              \A i \in 1..Len(last.calls) : last.calls[i].verb # "load"

\* an update of a stopped job has returned success
C1_Witness ==
    /\ last.op = "update" /\ last.res = "ok"
    /\ last.label \in last.known /\ last.label \notin last.loaded
    /\ ~Loaded(last.label)
    /\ fs[MetaYaml(last.label)] = last.arg

\* C2: delete(label) returns success, never an error and never an abort,
\* whatever step fails
C2_DeleteNeverFails == (last.op = "delete") => (last.res = "ok")

\* a step of the behaviour that is a call of the operation op
CallOf(op) == nops' = nops + 1 /\ last'.op = op

\* the regular files of label l below the root directory `area`
FilesOf(f, area, l) == {p \in DOMAIN f : p.area = area /\ p.label = l /\ f[p] # "DIR"}

\* where delete_task relocates a file of the task folder, of the output
\* folder or the meta copy of a label
TrashPath(p) ==
    [area |-> "trash", label |-> p.label,
     rel |-> CASE p.area = "tasks" -> p.rel
               [] p.area = "out" -> <<"out">> \o p.rel
               [] OTHER -> <<YamlName>>]

\* every file of the folder is in the trash folder of its label
Relocated(before, after, folder) ==
    /\ ~Exists(after, folder)
    /\ \A p \in {q \in DOMAIN before : Under(folder, q) /\ before[q] # "DIR"} :
          Exists(after, TrashPath(p))

\* C3: in delete(label) the steps do not depend on each other: each of the
\* task folder, the output folder and the meta copy that exists is relocated
\* into the trash folder of the label unless its own step failed (it is then
\* still in its place), and delete reports success
C3_DeleteStepsIndependent ==
    [][CallOf("delete") =>
         /\ last'.res = "ok"
         /\ \A folder \in {get_task_folder_name(last'.label),
                           get_output_folder_name(last'.label),
                           MetaYaml(last'.label)} :
               Exists(fs, folder) => (Relocated(fs, fs', folder) \/ Exists(fs', folder))]_vars

\* C4: delete relocates and never erases: a file of the label (meta copy,
\* task folder, output folder) that is no longer in its place after
\* delete(label) is in the trash folder of the label, with its content
C4_DeleteNeverErases ==
    [][CallOf("delete") =>
         \A p \in FilesOf(fs, "tasks", last'.label) \cup FilesOf(fs, "out", last'.label)
                  \cup FilesOf(fs, "meta", last'.label) :
            ~Exists(fs', p) => (Exists(fs', TrashPath(p)) /\ fs'[TrashPath(p)] = fs[p])]_vars

\* the errors of Configuration::from_yaml
ValidationErrors ==
    {"YamlError", "ConfigLabelError", "ConfigProgramError", "ConfigRangeError",
     "ConfigPathError"}

\* the meta copies: the text of every label that has one
MetaCopies(f) == [p \in {q \in DOMAIN f : q.area = "meta"} |-> f[p]]

\* C5: when the text fails parsing or validation, create, update and load
\* return the error with every descriptor file and every meta copy as it
\* was, and without an invocation of the load or unload verb
C5_InvalidTextNoMutation ==
    [][(nops' = nops + 1 /\ last'.op \in {"create", "update", "load"}
           /\ last'.res \in ValidationErrors) =>
         /\ plist' = plist
         /\ MetaCopies(fs') = MetaCopies(fs)
         /\ last'.calls = <<>>]_vars

\* an update of a loaded job with a text that fails validation has returned
C5_Witness ==
    /\ last.op = "update" /\ last.res = "ConfigRangeError"
    /\ last.label \in last.loaded /\ last.label \in last.known
    /\ Loaded(last.label) /\ last.label \in DOMAIN plist

\* C6: an update whose text is valid but names another label returns
\* WrongLabelInYaml, an update of a label that is neither loaded nor has a meta
\* copy returns TaskDoesNotExist, and either error leaves the file system, the
\* descriptor files and the job table as they were, with no load or unload
C6_UpdateRejectsWithoutChange ==
    [][CallOf("update") =>
         LET c == from_yaml(last'.arg, prog)
         IN /\ (last'.res \in {"WrongLabelInYaml", "TaskDoesNotExist"}) =>
                  /\ fs' = fs /\ plist' = plist /\ jobs' = jobs
                  /\ \A i \in 1..Len(last'.calls) :
                        last'.calls[i].verb \notin {"load", "unload"}
            /\ (c.res = "ok" /\ c.val.label # last'.label) =>
                  last'.res = "WrongLabelInYaml"
            /\ (c.res = "ok" /\ c.val.label = last'.label /\ nfaults' = nfaults
                  /\ last'.label \notin DOMAIN jobs
                  /\ last'.label \notin MetaLabels(fs)) =>
                  last'.res = "TaskDoesNotExist"]_vars

\* an update of a label that does not exist, while another job does, has
\* returned TaskDoesNotExist
C6_Witness ==
    /\ last.op = "update" /\ last.res = "TaskDoesNotExist"
    /\ last.label \notin last.known /\ last.label \notin last.loaded
    /\ last.known # {} /\ last.loaded # {}

\* the text inside an archive: its first entry with the yaml extension
ArchiveText(z) ==
    LET e == Zip(z)
        i == CHOOSE i \in 1..Len(e) :
                /\ Head(e[i].name) # MACOSX /\ HasYamlExt(e[i].name[Len(e[i].name)])
                /\ \A k \in 1..(i - 1) :
                      Head(e[k].name) = MACOSX \/ ~HasYamlExt(e[k].name[Len(e[k].name)])
    IN e[i].data

\* the ProgramArguments of a text or of a descriptor
ArgsOf(conf) ==
    LET i == CHOOSE i \in 1..Len(conf) : conf[i].kind = "ProgramArguments"
    IN conf[i].strs

HasArgs(conf) == \E i \in 1..Len(conf) : conf[i].kind = "ProgramArguments"

\* an argument as the claim has it rewritten for label l
Rewritten(arg, l) ==
    IF Head(arg) = TASK_ROOT_ALIAS
    THEN <<"/", "tasks">> \o l \o Tail(arg)
    ELSE arg

RewrittenArgs(z, l) ==
    LET args == ArgsOf(Doc(ArchiveText(z)).configuration)
    IN [k \in 1..Len(args) |-> Rewritten(args[k], l)]

\* C7: in create, every invocation of the load verb sees a descriptor whose
\* program arguments are those of the archive's text with the ones that begin
\* with the root alias pointing into the label's task folder and the others
\* as written, and a successful create leaves that descriptor in place
C7_CreateRewritesRootAlias ==
    (last.op = "create") =>
       /\ \A i \in 1..Len(last.calls) :
             (last.calls[i].verb = "load") =>
                /\ last.calls[i].desc # <<>>
                /\ HasArgs(last.calls[i].desc[1])
                /\ ArgsOf(last.calls[i].desc[1]) = RewrittenArgs(last.arg, last.calls[i].label)
       /\ (last.res = "ok") =>
             \E l \in Labels :
                /\ Invoked("load", l) /\ l \in DOMAIN plist /\ HasArgs(plist[l])
                /\ ArgsOf(plist[l]) = RewrittenArgs(last.arg, l)

\* a create has succeeded for a text with an argument that begins with the
\* root alias and one that only contains it
C7_Witness ==
    /\ last.op = "create" /\ last.res = "ok" /\ last.arg = "zipB"
    /\ Invoked("load", LB) /\ Loaded(LB)
    /\ ArgsOf(plist[LB]) = << <<"/", "tasks">> \o LB \o <<"b.sh">>, <<"x", TASK_ROOT_ALIAS>> >>

\* list reports label l with the given status in the state (f, p, j, g)
ListedAs(f, p, j, g, l, status) ==
    LET r == list_combined(World(f, p, j, g, {}), <<>>)
    IN r.res = "ok"
       /\ \E i \in 1..Len(r.val) : r.val[i].label = l /\ r.val[i].status = status

Listed(f, p, j, g, l) ==
    LET r == list_combined(World(f, p, j, g, {}), <<>>)
    IN r.res = "ok" /\ \E i \in 1..Len(r.val) : r.val[i].label = l

\* C8: for a created label (it has its meta copy), unload of the loaded label
\* succeeds when no step fails, and a successful unload leaves it not loaded,
\* with its meta copy as it was and listed as UNLOADED; load of the unloaded
\* label whose text is still valid succeeds when no step fails, and a
\* successful load leaves it loaded with a descriptor file; both hold in
\* every reachable state, hence for any number of alternations
C8_UnloadLoadAlternate ==
    [][/\ (CallOf("unload") /\ last'.label \in DOMAIN jobs /\ HasMeta(last'.label)) =>
            /\ (nfaults' = nfaults) => (last'.res = "ok")
            /\ (last'.res = "ok") =>
                  /\ last'.label \notin DOMAIN jobs'
                  /\ Exists(fs', MetaYaml(last'.label))
                  /\ fs'[MetaYaml(last'.label)] = fs[MetaYaml(last'.label)]
                  /\ ListedAs(fs', plist', jobs', prog', last'.label, "UNLOADED")
       /\ (CallOf("load") /\ last'.label \notin DOMAIN jobs /\ HasMeta(last'.label)
             /\ IsFile(fs, MetaYaml(last'.label))
             /\ from_yaml(fs[MetaYaml(last'.label)], prog).res = "ok") =>
            /\ (nfaults' = nfaults) => (last'.res = "ok")
            /\ (last'.res = "ok") =>
                  /\ last'.label \in DOMAIN jobs'
                  /\ last'.label \in DOMAIN plist' /\ plist'[last'.label] # <<>>
                  /\ fs'[MetaYaml(last'.label)] = fs[MetaYaml(last'.label)]]_vars

\* create, unload, load: the label is loaded again by the third operation
C8_Witness ==
    /\ nops = 3 /\ nfaults = 0
    /\ last.op = "load" /\ last.res = "ok"
    /\ last.label \in last.known /\ last.label \notin last.loaded
    /\ Loaded(last.label) /\ last.label \in DOMAIN plist
    /\ Exists(fs, Child(get_task_folder_name(last.label), "run.sh"))

\* label l is neither loaded nor has a meta copy
Absent(f, j, l) == l \notin DOMAIN j /\ ~Exists(f, MetaYaml(l))

UnloadVerbSucceeded(calls, l) ==
    \E i \in 1..Len(calls) : calls[i].verb = "unload" /\ calls[i].label = l /\ calls[i].ok

Verbs(calls) == [i \in 1..Len(calls) |-> calls[i].verb]

\* the meta copy of l is a file whose text passes from_yaml
ValidMeta(f, g, l) == IsFile(f, MetaYaml(l)) /\ from_yaml(f[MetaYaml(l)], g).res = "ok"

C11_UnloadErrorIffNotLoaded ==
    (last.op = "unload" /\ last.res # "LaunchctlListError") =>
       ((last.res # "ok") <=> (last.label \notin last.loaded))

\* the invocations of a call that failed
FailedVerbs(calls) == Cardinality({i \in 1..Len(calls) : ~calls[i].ok})

\* C12 (first half): every call of unload invokes the external unload verb
\* for its label, whether or not the label was loaded
C12_UnloadVerbAttempted ==
    [][CallOf("unload") =>
         \E i \in 1..Len(last'.calls) :
            last'.calls[i].verb = "unload" /\ last'.calls[i].label = last'.label]_vars

\* C12: every call of unload invokes the external unload verb for its label
\* and afterwards attempts to remove the label's descriptor file, whether or
\* not the label was loaded and whether or not the verb succeeded: when the
\* descriptor file is there and no step other than the verb fails, the
\* attempt removes it
C12_UnloadAlwaysAttempts ==
    [][CallOf("unload") =>
         /\ \E i \in 1..Len(last'.calls) :
               last'.calls[i].verb = "unload" /\ last'.calls[i].label = last'.label
         /\ (last'.label \in DOMAIN plist
               /\ nfaults' - nfaults = FailedVerbs(last'.calls)) =>
               last'.label \notin DOMAIN plist']_vars

\* C12 (second half): the removal of the descriptor file is attempted after
\* an unload verb that failed
C12_RemovalAfterFailedVerb ==
    [][(CallOf("unload") /\ last'.label \in DOMAIN plist
          /\ FailedVerbs(last'.calls) = 1 /\ nfaults' - nfaults = 1) =>
         last'.label \notin DOMAIN plist']_vars

\* ------------------------------------------------------ the listing alone
\* list applied to an arbitrary output of `launchctl list` and an arbitrary
\* meta folder: jobs holds the lines of the output by their label column
\* (the key <<>> is a line without a label column), fs the meta copies and
\* the stdout files, last the call and what it returned

\* the most lines of a list output
MaxLines == 2

\* a label outside the namespace of the service
LF == <<"com", "apple", "a">>

\* the pid and status columns of a line with a label column
Columns == [pid : {"-", "7"}, status : {"0", "1", "abc"}]

\* the columns of a line that ends before its label column
ShortColumns ==
    {[pid |-> "", status |-> ""], [pid |-> "-", status |-> ""],
     [pid |-> "abc", status |-> ""], [pid |-> "7", status |-> ""]}

\* the outputs of `launchctl list` of at most MaxLines lines
Listings ==
    UNION {[K -> Columns \cup ShortColumns] :
              K \in {X \in SUBSET (Labels \cup {LF, <<>>}) : Cardinality(X) <= MaxLines}}

IsListing(j) ==
    \A l \in DOMAIN j : (l = <<>>) <=> (j[l] \in ShortColumns)

\* the meta folder and the output folders: yaml files named by a label, and
\* stdout files
ListFiles(M, O) ==
    [p \in {MetaYaml(l) : l \in M}
          \cup {Child(get_output_folder_name(l), STD_OUT_FILE) : l \in O}
          \cup {get_output_folder_name(l) : l \in O}
       |-> IF p.area = "meta" THEN "ya"
           ELSE IF p.rel = <<>> THEN "DIR" ELSE "log"]

\* the filters of list
Patterns == {<<>>, <<"a">>, <<"tasks">>, LA, <<"yaml">>, <<"apple">>}

ListInit ==
    /\ jobs \in {j \in Listings : IsListing(j)}
    /\ \E M \in SUBSET (Labels \cup {LF}), O \in SUBSET {LA} : fs = ListFiles(M, O)
    /\ plist = <<>>
    /\ prog = TRUE
    /\ last = NoCall
    /\ nops = 0
    /\ nfaults = 0
    /\ OthersInit

\* one call of list (launchctl.rs list, list_combined), with the steps of F failing
List ==
    \E pattern \in Patterns, F \in {{}, {1}, {2}} :
       /\ nfaults + Cardinality(F) <= MaxFaults
       /\ With(list_combined(World(fs, plist, jobs, prog, F), pattern), LAMBDA r :
             last' = [op |-> "list", label |-> pattern, arg |-> "", res |-> r.res,
                      calls |-> <<>>, loaded |-> DOMAIN jobs, known |-> MetaLabels(fs),
                      val |-> r.val])
       /\ nfaults' = nfaults + Cardinality(F)
       /\ UNCHANGED <<fs, plist, jobs, prog, nops, others, owner>>

ListSpec == ListInit /\ [][List]_vars

\* the labels of the lines of the list output that contain the filter and
\* the namespace marker
LiveLabels(j, pattern) ==
    {l \in DOMAIN j : Contains(l, pattern) /\ Contains(l, TASKER_TASK_NAME)}

\* the labels of the meta inventory that contain the filter and the marker
InventoryLabels(f, pattern) ==
    {l \in MetaLabels(f) : IsFile(f, MetaYaml(l)) /\ Contains(l, pattern)
                              /\ Contains(l, TASKER_TASK_NAME)}

\* the labels of the meta inventory whose file name contains the filter and
\* the marker
InventoryNames(f, pattern) ==
    {l \in MetaLabels(f) : IsFile(f, MetaYaml(l)) /\ Contains(file_name(MetaYaml(l)), pattern)
                              /\ Contains(file_name(MetaYaml(l)), TASKER_TASK_NAME)}

\* the records v are one per label of live \cup inventory, ascending by
\* label; a label of live carries the columns of its line and a live status,
\* any other label carries UNLOADED without pid and exit status
MergedListing(v, live, inventory) ==
    /\ {v[i].label : i \in 1..Len(v)} = live \cup inventory
    /\ \A i \in 1..(Len(v) - 1) : LabelLess(v[i].label, v[i + 1].label)
    /\ \A i \in 1..Len(v) :
          IF v[i].label \in live
          THEN /\ v[i].pid = ParseI32(jobs[v[i].label].pid)
               /\ v[i].last_exit_status = ParseI32(jobs[v[i].label].status)
               /\ v[i].status \in {"RUNNING", "ERROR", "LOADED", "NORMAL"}
          ELSE /\ v[i].pid = None /\ v[i].last_exit_status = None
               /\ v[i].status = "UNLOADED"

\* C13: a list that returns gives exactly one record per label of the union
\* of the lines and the meta copies whose label contains the filter and the
\* namespace marker, ascending by label without repetition; a label of a
\* line carries the line's pid, exit status and live status, a label of the
\* inventory alone carries UNLOADED with neither pid nor exit status
C13_ListIsMergedUnion ==
    (last.op = "list" /\ last.res = "ok") =>
       MergedListing(last.val, LiveLabels(jobs, last.label),
                     InventoryLabels(fs, last.label))

\* the same with the inventory filtered as meta_yaml_list filters it: the
\* merge, the order and the precedence of the live record
C13_MergeOfListings ==
    (last.op = "list" /\ last.res = "ok") =>
       MergedListing(last.val, LiveLabels(jobs, last.label),
                     InventoryNames(fs, last.label))

\* C14: every record of a list that returns has a label that contains the
\* namespace marker and the filter, whether it comes from a line of the list
\* output or from the meta inventory
C14_RecordsContainFilter ==
    (last.op = "list" /\ last.res = "ok") =>
       \A i \in 1..Len(last.val) :
          /\ Contains(last.val[i].label, TASKER_TASK_NAME)
          /\ Contains(last.val[i].label, last.label)

\* the status the stated priority gives a line: RUNNING with a numeric pid,
\* else ERROR with a numeric status that is not zero, else LOADED without the
\* stdout file, else NORMAL; a status column that is absent counts as zero
\* and one that is not numeric leaves LOADED or NORMAL
StatedStatus(f, line) ==
    IF ParseI32(line.pid) # None THEN "RUNNING"
    ELSE IF ParseI32(line.status) # None /\ ParseI32(line.status)[1] # 0 THEN "ERROR"
    ELSE IF ~Exists(f, Child(get_output_folder_name(line.label), STD_OUT_FILE))
         THEN "LOADED"
    ELSE "NORMAL"

\* C15: from_line gives every line of the list output a record whose status
\* follows the stated priority, also when neither the pid nor the status
\* column is a number, and no list aborts
C15_StatusDerivationTotal ==
    (last.op = "list" /\ last.res # "LaunchctlListError") =>
       /\ \A i \in 1..Len(ListOutput(jobs)) :
             from_line(fs, ListOutput(jobs)[i]).status
                = StatedStatus(fs, ListOutput(jobs)[i])
       /\ last.res # "panic"

\* C15 without the lines whose status column is present and not a number:
\* on every other line the derivation follows the priority
C15_PriorityOnNumericStatus ==
    (last.op = "list") =>
    \A i \in 1..Len(ListOutput(jobs)) :
       (ParseI32(ListOutput(jobs)[i].pid) # None
          \/ ListOutput(jobs)[i].status = ""
          \/ ParseI32(ListOutput(jobs)[i].status) # None) =>
       from_line(fs, ListOutput(jobs)[i]).status = StatedStatus(fs, ListOutput(jobs)[i])

\* ------------------------------------------------- the environment static
\* initialize.rs get_environment called from several threads (main and the
\* workers that run validator). ENVIRONMENT is a `static mut` read and
\* written without synchronisation: the steps of the callers interleave
\* freely, and the write of the Option is not atomic, so between its two
\* halves the static holds a value that is not whole.

\* the most runs of Env::init that are followed
MaxInits == 3

\* thread t is at position pc of get_environment
At(t, pc) == callers[t].pc = pc

Goto(t, pc) == callers' = [callers EXCEPT ![t].pc = pc]

\* `if ENVIRONMENT.is_none()`: a static that is being written reads as
\* either
IsNone(t) ==
    /\ At(t, "out")
    /\ \E none \in BOOLEAN :
          /\ (ENVIRONMENT = None) => none
          /\ (ENVIRONMENT # None /\ ENVIRONMENT[1].whole) => ~none
          /\ Goto(t, IF none THEN "init" ELSE "as_ref")
    /\ UNCHANGED <<ENVIRONMENT, ninit>>

\* `Env::init()`: one more run of the initialiser, whose value the thread holds
EnvInit(t) ==
    /\ At(t, "init")
    /\ ninit < MaxInits
    /\ ninit' = ninit + 1
    /\ callers' = [callers EXCEPT ![t].pc = "assign", ![t].env = Some(ninit + 1)]
    /\ UNCHANGED ENVIRONMENT

\* `ENVIRONMENT = Some(..)`: the write begins
Assign(t) ==
    /\ At(t, "assign")
    /\ ENVIRONMENT' = Some([init |-> callers[t].env[1], whole |-> FALSE])
    /\ Goto(t, "assigning")
    /\ UNCHANGED ninit

\* the write ends: the static is whole unless another write came in between
AssignEnd(t) ==
    /\ At(t, "assigning")
    /\ ENVIRONMENT' = IF ENVIRONMENT[1].init = callers[t].env[1]
                      THEN Some([init |-> callers[t].env[1], whole |-> TRUE])
                      ELSE ENVIRONMENT
    /\ Goto(t, "as_ref")
    /\ UNCHANGED ninit

\* `return ENVIRONMENT.as_ref()`: what the caller reads through the reference
AsRef(t) ==
    /\ At(t, "as_ref")
    /\ callers' = [callers EXCEPT ![t].pc = "done", ![t].got = ENVIRONMENT]
    /\ UNCHANGED <<ENVIRONMENT, ninit>>

\* the caller goes on and may call again
Return(t) ==
    /\ At(t, "done")
    /\ Goto(t, "out")
    /\ UNCHANGED <<ENVIRONMENT, ninit>>

get_environment(t) ==
    /\ (IsNone(t) \/ EnvInit(t) \/ Assign(t) \/ AssignEnd(t) \/ AsRef(t) \/ Return(t))
    /\ UNCHANGED <<fs, owner, running, plist, jobs, prog, last, nops, nfaults, config>>

EnvNext == \E t \in Threads : get_environment(t)

EnvSpec == Init /\ [][EnvNext]_vars

\* C16: the initialiser runs at most once, and every caller that has
\* returned got the same, whole, value
C16_InitialisedOnce ==
    /\ ninit <= 1
    /\ \A t \in Threads :
          (callers[t].got # None) =>
             /\ callers[t].got[1].whole
             /\ \A u \in Threads :
                   (callers[u].got # None) => callers[u].got = callers[t].got

\* C16 (first half): the initialiser body runs at most once
C16_InitRunsOnce == ninit <= 1

\* ------------------------------------------------ the configuration value
\* config.rs on its own: a text is read by from_yaml and the Configuration
\* it returns is changed by add_config and remove_config and written back
\* by to_yaml; config holds the Configuration, nops counts the changes made
\* to it since from_yaml returned it, last is the call made last

\* the most entries of the Configuration list of a text
MaxEntries == 3

\* the labels of the texts: one of them begins with the namespace itself
DocLabels == {ShortA, TASKER_TASK_NAME \o ShortA}

\* the entries of the texts and of add_config; StartInterval(-1) fails its check
DocEntries ==
    {StartInterval(1), StartInterval(7), StartInterval(-1), StandardOutPath(UserLog),
     ProgramArguments(<< <<"-v">> >>)}

\* the names remove_config is called with; no entry is a RunAtLoad
Kinds == {"StartInterval", "StandardOutPath", "ProgramArguments", "RunAtLoad"}

\* the documents serde_yaml reads from the texts
Documents ==
    {[schema |-> TRUE, label |-> l, program |-> ProgPath, configuration |-> cs] :
        l \in DocLabels, cs \in UNION {[1..n -> DocEntries] : n \in 0..MaxEntries}}

\* a calendar interval and a resource limit with one field present
NoInterval == [minute |-> None, hour |-> None, day |-> None, weekday |-> None, month |-> None]

NoLimit ==
    [cpu |-> None, file_size |-> None, number_of_files |-> None,
     number_of_processes |-> None, resident_set_size |-> None, stack |-> None]

\* the calendar intervals of the texts: every field at and around the ends
\* of its range, and the two intervals of the tests of config.rs
Intervals ==
    {[NoInterval EXCEPT !.minute = Some(v)] : v \in {-1, 0, 59, 60}}
    \cup {[NoInterval EXCEPT !.hour = Some(v)] : v \in {-1, 0, 23, 24}}
    \cup {[NoInterval EXCEPT !.day = Some(v)] : v \in {0, 1, 31, 32}}
    \cup {[NoInterval EXCEPT !.weekday = Some(v)] : v \in {-1, 0, 7, 8}}
    \cup {[NoInterval EXCEPT !.month = Some(v)] : v \in {0, 1, 12, 13}}
    \cup {[NoInterval EXCEPT !.minute = Some(15), !.hour = Some(v)] : v \in {9, 30}}

\* the resource limits of the texts
Limits ==
    {[NoLimit EXCEPT !.cpu = Some(v)] : v \in {-1, 0}}
    \cup {[NoLimit EXCEPT !.file_size = Some(v)] : v \in {-1, 0}}
    \cup {[NoLimit EXCEPT !.number_of_files = Some(v)] : v \in {-1, 0}}
    \cup {[NoLimit EXCEPT !.number_of_processes = Some(v)] : v \in {-1, 0, 500, 501}}
    \cup {[NoLimit EXCEPT !.resident_set_size = Some(v)] : v \in {-1, 0}}
    \cup {[NoLimit EXCEPT !.stack = Some(v)] : v \in {-1, 0, 67104768, 67104769}}

\* the entries with numbers in them: a calendar list of one interval or of
\* a good one followed by another, a soft or hard limit, an exit timeout
RangeEntries ==
    {Entry("StartCalendarInterval", <<cal>>, 0) : cal \in Intervals}
    \cup {Entry("StartCalendarInterval", <<[NoInterval EXCEPT !.hour = Some(9)], cal>>, 0) :
             cal \in {[NoInterval EXCEPT !.day = Some(v)] : v \in {0, 1}}}
    \cup {Entry(k, <<limit>>, 0) : k \in {"SoftResourceLimit", "HardResourceLimits"},
                                    limit \in Limits}
    \cup {Entry("ExitTimeOut", <<>>, v) : v \in {-1, 0}}

\* the documents of the texts that list one such entry behind a plain one
RangeDocuments ==
    {[schema |-> TRUE, label |-> ShortA, program |-> ProgPath,
      configuration |-> <<StartInterval(1), e>>] : e \in RangeEntries}

\* a log file that does not exist
NoLog == <<"/", "tmp", "none.log">>

\* the documents of the texts with a label that does not match (an empty
\* segment, a segment with a blank), a program that is relative or names no
\* file, and entries that fail their checks with different errors
CheckDocuments ==
    {[schema |-> TRUE, label |-> l, program |-> p, configuration |-> cs] :
        l \in {ShortA, <<"a", "">>, <<"bad label!">>},
        p \in {ProgPath, <<"bin", "p">>, <<"/", "bin", "q">>},
        cs \in {<<>>, <<StartInterval(-1)>>,
                <<StandardOutPath(NoLog), StartInterval(-1)>>,
                <<StartInterval(-1), StandardOutPath(NoLog)>>,
                <<StartInterval(1), StandardOutPath(NoLog), StartInterval(-1)>>}}

\* the texts given key by key: the top mapping has or misses each of its
\* three keys and may have a key more; the list has no item or one, of a
\* kind that is known or not, with a value of the right shape or not, with
\* or without a key more in its mapping
YamlTexts ==
    LET Item(kind, scalar, maps) == [kind |-> kind, scalar |-> scalar, maps |-> maps]
        items == {Item("StartInterval", <<"int", 7>>, <<>>),
                  Item("StartInterval", <<"str", 0>>, <<>>),
                  Item("NoSuchAttribute", <<"str", 0>>, <<>>),
                  Item("StartCalendarInterval", <<"", 0>>,
                       << {<<"Minute", "int", 15>>, <<"Hour", "int", 9>>} >>),
                  Item("StartCalendarInterval", <<"", 0>>,
                       << {<<"Minute", "int", 15>>, <<"Second", "int", 9>>} >>),
                  Item("StartCalendarInterval", <<"", 0>>, << {<<"Minute", "str", 0>>} >>),
                  Item("SoftResourceLimit", <<"", 0>>, << {<<"Stack", "int", 9>>} >>),
                  Item("SoftResourceLimit", <<"", 0>>,
                       << {<<"Stack", "int", 9>>, <<"Heap", "int", 9>>} >>),
                  Item("HardResourceLimits", <<"", 0>>, <<>>)}
    IN {[top |-> top, label |-> ShortA, program |-> ProgPath, items |-> is] :
           top \in SUBSET {"Label", "Program", "Configuration", "Comment"},
           is \in {<<>>} \cup {<<i>> : i \in items}}

ConfigCall(op, arg, res, val) == [op |-> op, arg |-> arg, res |-> res, val |-> val]

\* Configuration::from_yaml on a text
FromYaml ==
    /\ config = None
    /\ \E d \in Documents \cup RangeDocuments \cup CheckDocuments :
          With(from_document(d, prog), LAMBDA r :
             /\ config' = IF r.res = "ok" THEN Some(r.val) ELSE None
             /\ last' = ConfigCall("from_yaml", d, r.res, r.val))
    /\ UNCHANGED <<fs, owner, running, plist, jobs, prog, nops, nfaults, ENVIRONMENT, callers, ninit>>

\* Configuration::from_yaml on a text given key by key
FromText ==
    /\ config = None
    /\ \E yaml \in YamlTexts :
          With(from_document(from_str(yaml), prog), LAMBDA r :
             /\ config' = IF r.res = "ok" THEN Some(r.val) ELSE None
             /\ last' = ConfigCall("from_text", yaml, r.res, r.val))
    /\ UNCHANGED <<fs, owner, running, plist, jobs, prog, nops, nfaults, ENVIRONMENT, callers, ninit>>

\* Configuration::add_config on the Configuration held
AddConfig ==
    /\ config # None /\ nops < MaxOps
    /\ \E c \in DocEntries :
          /\ config' = Some(add_config(config[1], c))
          /\ last' = ConfigCall("add_config", c, "ok", <<>>)
    /\ nops' = nops + 1
    /\ UNCHANGED <<fs, owner, running, plist, jobs, prog, nfaults, ENVIRONMENT, callers, ninit>>

\* Configuration::remove_config on the Configuration held
RemoveConfig ==
    /\ config # None /\ nops < MaxOps
    /\ \E k \in Kinds :
          /\ config' = Some(remove_config(config[1], k))
          /\ last' = ConfigCall("remove_config", k, "ok", <<>>)
    /\ nops' = nops + 1
    /\ UNCHANGED <<fs, owner, running, plist, jobs, prog, nfaults, ENVIRONMENT, callers, ninit>>

\* Configuration::to_yaml on the Configuration held and from_yaml on the
\* text it wrote
ToYaml ==
    /\ config # None /\ last.op # "to_yaml"
    /\ With(from_document(to_yaml(config[1]), prog), LAMBDA r :
          last' = ConfigCall("to_yaml", to_yaml(config[1]), r.res, r.val))
    /\ UNCHANGED <<fs, owner, running, plist, jobs, prog, nops, nfaults, config, ENVIRONMENT, callers, ninit>>

ConfigNext == FromYaml \/ FromText \/ AddConfig \/ RemoveConfig \/ ToYaml

ConfigSpec == Init /\ [][ConfigNext]_vars

\* the positions of the entries of a kind in a list
OfKind(conf, kind) == {i \in 1..Len(conf) : conf[i].kind = kind}

\* the n-th smallest of the numbers of a sequence without repetition
SortedAt(seq, n) ==
    CHOOSE x \in {seq[i] : i \in 1..Len(seq)} :
       Cardinality({y \in {seq[i] : i \in 1..Len(seq)} : y < x}) = n - 1

\* the step is a call of add_config or of remove_config
ConfigStep(op) == nops' = nops + 1 /\ last'.op = op

\* C17: add_config of an entry whose kind the list holds puts the entry at
\* the index of the held one and leaves the length and every other entry as
\* they were; otherwise it appends the entry; label and program stay; and
\* after two add_config in a row of entries of one kind the list holds one
\* entry of that kind, the later one, where the first was put
C17_AddConfigUpserts ==
    [][ConfigStep("add_config") =>
         LET c == last'.arg
             old == config[1].configuration
             new == config'[1].configuration
             same == OfKind(old, c.kind)
         IN /\ config'[1].label = config[1].label
            /\ config'[1].program = config[1].program
            /\ (same # {}) =>
                  /\ Len(new) = Len(old)
                  /\ \A i \in 1..Len(old) :
                        new[i] = IF i = SetMin(same) THEN c ELSE old[i]
            /\ (same = {}) => new = Append(old, c)
            /\ (last.op = "add_config" /\ last.arg.kind = c.kind) =>
                  /\ Cardinality(OfKind(new, c.kind)) = 1
                  /\ \A i \in OfKind(old, c.kind) : old[i] = last.arg /\ new[i] = c]_vars

\* two add_config in a row of StartInterval entries with different values
\* on a list that began without one: the later value is where the first was
\* appended, behind the entry that was there
C17_Witness ==
    /\ nops = 2 /\ last.op = "add_config" /\ last.arg = StartInterval(7)
    /\ config # None
    /\ config[1].configuration = <<StandardOutPath(UserLog), StartInterval(7)>>

\* C18: remove_config takes out exactly the entries of the named kind: what
\* is left is the old list without them, in the old order and with the old
\* values; a kind the list does not hold leaves the Configuration as it
\* was; label and program stay
C18_RemoveConfigExact ==
    [][ConfigStep("remove_config") =>
         LET k == last'.arg
             old == config[1].configuration
             new == config'[1].configuration
             kept == SetToSeq({i \in 1..Len(old) : old[i].kind # k})
         IN /\ config'[1].label = config[1].label
            /\ config'[1].program = config[1].program
            /\ OfKind(new, k) = {}
            /\ Len(new) = Len(kept)
            /\ \A n \in 1..Len(kept) : new[n] = old[SortedAt(kept, n)]
            /\ (OfKind(old, k) = {}) => config' = config]_vars

\* a remove_config has taken the middle entry out of a list of three
C18_Witness ==
    /\ nops = 1 /\ last.op = "remove_config" /\ last.arg = "StandardOutPath"
    /\ config # None
    /\ config[1].configuration = <<StartInterval(7), ProgramArguments(<< <<"-v">> >>)>>

\* the positions of a list at which a kind occurs for the first time
FirstOfKind(cs) == {i \in 1..Len(cs) : \A j \in 1..(i - 1) : cs[j].kind # cs[i].kind}

\* C19: the Configuration from_yaml returned, after any add_config and
\* remove_config, holds no two entries of one kind; and the list from_yaml
\* returns for a text has one entry for every kind of the text, in the order
\* in which the kinds first occur, each with the value the text lists last
C19_OneEntryPerKind ==
    /\ (config # None) =>
          \A i, j \in 1..Len(config[1].configuration) :
             (i # j) => config[1].configuration[i].kind # config[1].configuration[j].kind
    /\ (last.op = "from_yaml" /\ last.res = "ok") =>
          LET cs == last.arg.configuration
              firsts == SetToSeq(FirstOfKind(cs))
              new == config[1].configuration
          IN /\ Len(new) = Len(firsts)
             /\ \A n \in 1..Len(firsts) :
                   new[n] = cs[SetMax(OfKind(cs, cs[SortedAt(firsts, n)].kind))]

\* from_yaml has read a text that lists StartInterval twice around another
\* entry: the later value stands first
C19_Witness ==
    /\ last.op = "from_yaml" /\ last.res = "ok"
    /\ last.arg.configuration = <<StartInterval(1), StandardOutPath(UserLog), StartInterval(7)>>
    /\ config = Some([label |-> LA, program |-> ProgPath,
                      configuration |-> <<StartInterval(7), StandardOutPath(UserLog)>>])

\* C20: for the Configuration C from_yaml returned, in the environment in
\* which it was validated, the text to_yaml writes carries the label without
\* the namespace prefix, from_yaml of that text succeeds and returns C, and
\* to_yaml of the result is that text again
C20_RoundTrip ==
    (last.op = "to_yaml" /\ nops = 0) =>
       /\ append_domain(last.arg.label) = config[1].label
       /\ last.res = "ok"
       /\ Some(last.val) = config
       /\ to_yaml(last.val) = last.arg

\* the round trip has been made for a Configuration with entries whose
\* label, without the prefix, begins with the namespace again
C20_Witness ==
    /\ last.op = "to_yaml" /\ nops = 0 /\ last.res = "ok"
    /\ config # None
    /\ config[1].label = TASKER_TASK_NAME \o TASKER_TASK_NAME \o ShortA
    /\ last.arg.label = TASKER_TASK_NAME \o ShortA
    /\ Len(config[1].configuration) = 3

\* a field is absent or lies in lo..hi
Within(field, lo, hi) == field = None \/ (lo <= field[1] /\ field[1] <= hi)

\* a field is absent or is not negative
NonNegative(field) == field = None \/ field[1] >= 0

\* the ranges of the fields of a calendar interval
IntervalInRange(cal) ==
    /\ Within(cal.minute, 0, 59) /\ Within(cal.hour, 0, 23) /\ Within(cal.day, 1, 31)
    /\ Within(cal.weekday, 0, 7) /\ Within(cal.month, 1, 12)

\* the ranges of the fields of a resource limit other than cpu
LimitInRange(limit) ==
    /\ NonNegative(limit.file_size) /\ NonNegative(limit.number_of_files)
    /\ Within(limit.number_of_processes, 0, 500)
    /\ NonNegative(limit.resident_set_size) /\ Within(limit.stack, 0, 67104768)

\* every number of an entry lies in its range, cpu of a limit left aside
CheckedInRange(c) ==
    CASE c.kind = "StartCalendarInterval" ->
           \A i \in 1..Len(c.strs) : IntervalInRange(c.strs[i])
      [] c.kind \in {"SoftResourceLimit", "HardResourceLimits"} -> LimitInRange(c.strs[1])
      [] c.kind \in {"ExitTimeOut", "StartInterval"} -> c.num >= 0
      [] OTHER -> TRUE

\* every number of an entry lies in its range, every resource limit being
\* non-negative
InRange(c) ==
    /\ CheckedInRange(c)
    /\ (c.kind \in {"SoftResourceLimit", "HardResourceLimits"}) => NonNegative(c.strs[1].cpu)

\* from_yaml was called last, on a text whose label and program pass
FromYamlChecked ==
    last.op = "from_yaml" /\ check_label(last.arg.label) /\ check_program(prog, last.arg.program)

\* C21: the Configuration from_yaml returns has every present number in
\* its range (minute 0-59, hour 0-23, day 1-31, weekday 0-7, month 1-12,
\* resource limits not negative, processes at most 500, stack at most
\* 67104768, exit timeout and start interval not negative), and a text with
\* a number outside its range gets a range error and no Configuration
C21_NumbersInRange ==
    FromYamlChecked =>
       /\ (last.res = "ok") =>
             \A i \in 1..Len(last.val.configuration) : InRange(last.val.configuration[i])
       /\ (\E i \in 1..Len(last.arg.configuration) : ~InRange(last.arg.configuration[i])) =>
             last.res = "ConfigRangeError" /\ config = None

\* C21 (all fields but cpu): the same with the cpu limit left aside
C21_CheckedNumbersInRange ==
    FromYamlChecked =>
       /\ (last.res = "ok") =>
             \A i \in 1..Len(last.val.configuration) :
                CheckedInRange(last.val.configuration[i])
       /\ (\E i \in 1..Len(last.arg.configuration) :
              ~CheckedInRange(last.arg.configuration[i])) =>
             last.res = "ConfigRangeError" /\ config = None

\* a label of one or more segments, none empty, of letters, digits and _
LabelMatches(label) ==
    Len(label) >= 1 /\ \A i \in 1..Len(label) : label[i] \notin {"", "bad label!"}

\* a program path that is absolute and names the file that exists
ProgramIsFile(program) == Len(program) >= 1 /\ program[1] = "/" /\ program = ProgPath /\ prog

\* the positions of the entries of a text that fail their checks
Failing(cs) == {i \in 1..Len(cs) : check(cs[i]) # "ok"}

C22_FirstEntryWitness ==
    /\ last.op = "from_yaml" /\ last.res = "ConfigPathError" /\ config = None
    /\ last.arg.label = ShortA /\ last.arg.program = ProgPath
    /\ last.arg.configuration = <<StartInterval(1), StandardOutPath(NoLog), StartInterval(-1)>>

\* the keys of the mappings under the items of a text
ItemKeys(item) == UNION {{p[1] : p \in item.maps[i]} : i \in 1..Len(item.maps)}

\* a text has a key that is not known: in its top mapping, as the kind of
\* an item, or in the mapping under an item
UnknownKey(yaml) ==
    \/ yaml.top \ {"Label", "Program", "Configuration"} # {}
    \/ \E i \in 1..Len(yaml.items) :
          \/ yaml.items[i].kind \notin
                {"ExitTimeOut", "StartInterval", "StartCalendarInterval",
                 "SoftResourceLimit", "HardResourceLimits"}
          \/ ItemKeys(yaml.items[i]) \
                {"Minute", "Hour", "Day", "Weekday", "Month", "CPU", "FileSize",
                 "NumberOfFiles", "NumberOfProcesses", "ResidentSetSize", "Stack"} # {}

\* a text misses one of its three keys
MissingKey(yaml) == ~({"Label", "Program", "Configuration"} \subseteq yaml.top)

\* a text has a value of the wrong shape: no integer where an integer is
\* read, no mapping where one is read
BadShape(yaml) ==
    \E i \in 1..Len(yaml.items) :
       \/ yaml.items[i].scalar[1] = "str" /\ yaml.items[i].kind = "StartInterval"
       \/ yaml.items[i].kind = "HardResourceLimits" /\ yaml.items[i].maps = <<>>
       \/ \E j \in 1..Len(yaml.items[i].maps) : \E p \in yaml.items[i].maps[j] : p[2] # "int"

\* C23: a text with a key that is not known at any level, without Label,
\* Program or Configuration, or with a value of the wrong shape is rejected
\* with a schema error and gives no Configuration
C23_StrictParsing ==
    (last.op = "from_text" /\ (UnknownKey(last.arg) \/ MissingKey(last.arg) \/ BadShape(last.arg)))
       => last.res = "YamlError" /\ config = None

\* C23 (as the code has it): the same for a text that misses a key, has an
\* item of a kind that is not known or a value of the wrong shape
C23_MissingOrMisshapen ==
    (/\ last.op = "from_text"
     /\ \/ MissingKey(last.arg) \/ BadShape(last.arg)
        \/ \E i \in 1..Len(last.arg.items) : last.arg.items[i].kind = "NoSuchAttribute")
       => last.res = "YamlError" /\ config = None

\* ------------------------------------------------ the file system primitives
\* utils.rs on its own: one of move_by_rename, chown_by_name_recursive and
\* decompress is called on a source folder and a destination that hold
\* trees of files and folders

\* the sets of names below a folder, of the files f, d/g and d/e/h and the
\* folders d and d/e, that hold the folder of every name they hold
Shapes ==
    {S \in SUBSET {<<"f">>, <<"d">>, <<"d", "g">>, <<"d", "e">>, <<"d", "e", "h">>} :
        \A rel \in S : Len(rel) > 1 => SubSeq(rel, 1, Len(rel) - 1) \in S}

\* the folder root with the names of S below it; a file holds a content
\* of its own, or the mark that tells the files of the destination
Tree(root, S, mark) ==
    [p \in {root} \cup {[root EXCEPT !.rel = rel] : rel \in S} |->
        IF p.rel = <<>> \/ p.rel[Len(p.rel)] \notin {"f", "g", "h"} THEN "DIR"
        ELSE IF mark # "" THEN mark
        ELSE CASE p.rel[Len(p.rel)] = "f" -> "F" [] p.rel[Len(p.rel)] = "g" -> "G"
               [] OTHER -> "H"]

\* a source folder with a tree, and no destination or one with a tree; the
\* paths of the source belong to (0, 0), or to (3, 4), or the files to (3, 4)
\* and the folders to (0, 0)
FsInit ==
    /\ \E S \in Shapes, D \in {{<<>>}, {}, {<<"d">>}, {<<"f">>, <<"d">>, <<"d", "g">>}} :
          fs = IF D = {<<>>} THEN Tree(get_task_folder_name(LA), S, "")
               ELSE Tree(get_task_folder_name(LA), S, "")
                       @@ Tree(get_trash_folder_name(LA), D, "old")
    /\ \E O \in {{}, {p \in DOMAIN fs : p.area = "tasks"},
                  {p \in DOMAIN fs : p.area = "tasks" /\ IsFile(fs, p)}} :
          owner = [p \in O |-> <<3, 4>>]
    /\ plist = <<>>
    /\ jobs = <<>>
    /\ prog = TRUE
    /\ last = NoCall
    /\ nops = 0
    /\ nfaults = 0
    /\ config = None
    /\ ENVIRONMENT = None
    /\ callers = [t \in Threads |-> [pc |-> "out", env |-> None, got |-> None]]
    /\ ninit = 0
    /\ running = <<>>

\* move_by_rename of the source folder to the destination
Move == nops = 0 /\ Call("move", LA, "")

\* chown_by_name_recursive on the source folder, with or without a user
\* name and a group name; the host has no user ghost
Chown ==
    /\ nops = 0
    /\ \E username \in {None, Some("alice"), Some("ghost")},
          group_name \in {None, Some("wheel")} :
          Call("chown", LA, <<username, group_name>>)

\* decompress into the destination of an archive that has metadata
\* entries, that lists a folder before the file in it, or the file first,
\* or that has entries named with .. or with an absolute path
Unzip == nops = 0 /\ \E z \in {"zipB", "zipN", "zipR", "zipUp"} : Call("unzip", LA, z)

FsSpec == FsInit /\ [][Move \/ Chown \/ Unzip]_vars

\* the files below a folder
FilesBelow(f, root) == {p \in DOMAIN f : Under(root, p) /\ IsFile(f, p)}

\* every file the source folder held in f is in g at the same place below
\* the destination, in a folder, and the source folder is gone
MovedTo(f, g, from, to) ==
    /\ \A p \in FilesBelow(f, from) :
          /\ IsFile(g, Rebase(p, from, to)) /\ g[Rebase(p, from, to)] = f[p]
          /\ IsDir(g, Parent(Rebase(p, from, to)))
    /\ \A p \in DOMAIN g : ~Under(from, p)

\* the step is a call of move_by_rename on a source folder that exists
MoveStep == last'.op = "move" /\ IsDir(fs, get_task_folder_name(LA))

\* C24: a move_by_rename in which no step of the file system fails returns
\* success for every source tree, the trees with files in folders that the
\* destination does not hold among them, and a move_by_rename that returns
\* success leaves every file of the source at the same place below the
\* destination, with the folders it needs, and the source folder removed
C24_MoveTreeRelocates ==
    [][MoveStep =>
         /\ (nfaults' = nfaults) => last'.res = "ok"
         /\ (last'.res = "ok") =>
               MovedTo(fs, fs', get_task_folder_name(LA), get_trash_folder_name(LA))]_vars

\* C24 (the second half alone): a move_by_rename that returns success has
\* relocated every file and removed the source folder
C24_SuccessRelocates ==
    [][(MoveStep /\ last'.res = "ok") =>
         MovedTo(fs, fs', get_task_folder_name(LA), get_trash_folder_name(LA))]_vars

\* every file the source folder held in f is in g either where it was and
\* not at the destination, or at the destination and no longer where it was
KeptOrMoved(f, g, from, to) ==
    \A p \in FilesBelow(f, from) :
       \/ /\ IsFile(g, p) /\ g[p] = f[p]
          /\ ~(Exists(g, Rebase(p, from, to)) /\ g[Rebase(p, from, to)] = f[p])
       \/ /\ ~Exists(g, p)
          /\ IsFile(g, Rebase(p, from, to)) /\ g[Rebase(p, from, to)] = f[p]

\* C25: a move_by_rename in which a step fails (the creation of the
\* destination, the reading of a folder, a rename, the removal of the
\* source) returns a RenameError and does not abort, and leaves every file
\* either moved or where it was
C25_MoveFailsTyped ==
    [][(MoveStep /\ last'.res # "ok") =>
         /\ last'.res = "RenameError"
         /\ KeptOrMoved(fs, fs', get_task_folder_name(LA), get_trash_folder_name(LA))]_vars

\* C25 (the second half alone): after a move_by_rename that did not return
\* success every file is either moved or where it was
C25_NoFileLost ==
    [][(MoveStep /\ last'.res # "ok") =>
         KeptOrMoved(fs, fs', get_task_folder_name(LA), get_trash_folder_name(LA))]_vars

\* the step is a call of chown_by_name_recursive on a folder that exists,
\* with names the host knows
ChownStep ==
    /\ last'.op = "chown" /\ IsDir(fs, get_task_folder_name(LA))
    /\ last'.arg[1] \in {None, Some("alice")}

\* the (uid, gid) a path is to get: the uid of the user when a user is
\* given and else its own; the gid of the group when a group is given, else
\* the primary gid of the user when a user is given, and else its own
Target(p, username, group_name) ==
    <<IF username # None THEN 1 ELSE Owner(owner, p)[1],
      IF group_name # None THEN 2
      ELSE IF username # None THEN 1 ELSE Owner(owner, p)[2]>>

\* C26: chown_by_name_recursive in which no step fails returns success; on
\* success the folder and every file and folder below it have the (uid, gid)
\* resolved for them (user and group: the user's uid and the group's gid;
\* user only: the user's uid and primary gid; group only: their own uid and
\* the group's gid; neither: what they had); when a step fails it returns
\* FailedToChown and every path has what it had or what was resolved for
\* it; the paths outside the folder keep what they had
C26_ChownTreeResolves ==
    [][ChownStep =>
         LET root == get_task_folder_name(LA)
             below == {p \in DOMAIN fs : Under(root, p)}
         IN /\ (nfaults' = nfaults) => last'.res = "ok"
            /\ (last'.res = "ok") =>
                  \A p \in below : Owner(owner', p) = Target(p, last'.arg[1], last'.arg[2])
            /\ (last'.res # "ok") =>
                  /\ last'.res = "FailedToChown"
                  /\ \A p \in below :
                        Owner(owner', p) \in {Owner(owner, p),
                                              Target(p, last'.arg[1], last'.arg[2])}
            /\ \A p \in (DOMAIN fs) \ below : Owner(owner', p) = Owner(owner, p)
            /\ fs' = fs]_vars

\* a chown with the user alone has given the folder, the folder d/e and the
\* file d/e/h the uid and the primary gid of the user
C26_Witness ==
    /\ last.op = "chown" /\ last.res = "ok" /\ last.arg = <<Some("alice"), None>>
    /\ \A rel \in {<<>>, <<"d", "e">>, <<"d", "e", "h">>} :
          /\ Exists(fs, [get_task_folder_name(LA) EXCEPT !.rel = rel])
          /\ Owner(owner, [get_task_folder_name(LA) EXCEPT !.rel = rel]) = <<1, 1>>

\* a chown with the group alone has left a file with its own uid
C26_GroupOnlyWitness ==
    /\ last.op = "chown" /\ last.res = "ok" /\ last.arg = <<None, Some("wheel")>>
    /\ Owner(owner, Child(get_task_folder_name(LA), "f")) = <<3, 2>>

\* a chown has stopped at a file after the folder was changed
C26_StoppedWitness ==
    /\ last.op = "chown" /\ last.res = "FailedToChown" /\ last.arg = <<Some("alice"), None>>
    /\ Owner(owner, get_task_folder_name(LA)) = <<1, 1>>
    /\ Owner(owner, Child(get_task_folder_name(LA), "f")) = <<3, 4>>

\* the entries of an archive that are files and no metadata
FileEntries(z) ==
    {Zip(z)[i] : i \in {k \in 1..Len(Zip(z)) : ~Zip(z)[k].dir /\ Head(Zip(z)[k].name) # MACOSX}}

\* C27: decompress writes no path below the metadata prefix, a file it
\* wrote lies in a folder, and when no step fails it returns success with
\* every file entry that is no metadata written, in whatever order the
\* archive lists its files and folders
C27_UnzipAnyOrder ==
    [][(last'.op = "unzip") =>
         LET out_dir == get_trash_folder_name(LA)
         IN /\ \A p \in (DOMAIN fs') \ (DOMAIN fs) : p.rel = <<>> \/ Head(p.rel) # MACOSX
            /\ \A p \in (DOMAIN fs') \ (DOMAIN fs) : ParentIsDir(fs', p)
            /\ (nfaults' = nfaults) =>
                  /\ last'.res = "ok"
                  /\ \A f \in FileEntries(last'.arg) :
                        /\ IsFile(fs', JoinName(out_dir, f.name))
                        /\ fs'[JoinName(out_dir, f.name)] = f.data]_vars

\* C27 (the order of the archive left aside): the same for the archives
\* that list every folder before the files in it
C27_UnzipFoldersFirst ==
    [][(last'.op = "unzip" /\ last'.arg # "zipR") =>
         LET out_dir == get_trash_folder_name(LA)
         IN /\ \A p \in (DOMAIN fs') \ (DOMAIN fs) : p.rel = <<>> \/ Head(p.rel) # MACOSX
            /\ \A p \in (DOMAIN fs') \ (DOMAIN fs) : ParentIsDir(fs', p)
            /\ (nfaults' = nfaults) =>
                  /\ last'.res = "ok"
                  /\ \A f \in FileEntries(last'.arg) :
                        /\ IsFile(fs', JoinName(out_dir, f.name))
                        /\ fs'[JoinName(out_dir, f.name)] = f.data]_vars

\* the files with the extension yaml at the top of an archive, metadata
\* left aside
TopYaml(z) ==
    {i \in 1..Len(Zip(z)) :
        ~Zip(z)[i].dir /\ Len(Zip(z)[i].name) = 1 /\ HasYamlExt(Zip(z)[i].name[1])}

\* the meta copies, the task folders and the descriptor files
Written(f, pl) == <<[p \in {q \in DOMAIN f : q.area \in {"meta", "tasks"}} |-> f[p]], pl>>

\* C28: create of an archive whose top level holds no yaml file, or more
\* than one, fails and writes no meta copy, task folder or descriptor
C28_CreateNeedsOneYaml ==
    [][(last'.op = "create" /\ Cardinality(TopYaml(last'.arg)) # 1) =>
         last'.res \notin {"ok", "panic"} /\ Written(fs', plist') = Written(fs, plist)]_vars

\* C28 (no yaml file): create of an archive whose top level holds no yaml
\* file fails and writes no meta copy, task folder or descriptor
C28_CreateWithoutYamlFails ==
    [][(last'.op = "create" /\ TopYaml(last'.arg) = {}) =>
         last'.res # "ok" /\ Written(fs', plist') = Written(fs, plist)]_vars

\* the descriptor of the processed configuration of a text
DescriptorOf(t) ==
    to_plist(process_config(World(fs, plist, jobs, prog, {}), from_yaml(t, prog).val).val)

\* C29: after an update that returned success, of a label that was loaded
\* or not, the meta copy of the label holds the text and the descriptor
\* file of the label is the descriptor of the processed configuration
C29_UpdateRewritesBoth ==
    [][(last'.op = "update" /\ last'.res = "ok") =>
         /\ IsFile(fs', MetaYaml(last'.label)) /\ fs'[MetaYaml(last'.label)] = last'.arg
         /\ last'.label \in DOMAIN plist'
         /\ plist'[last'.label] = DescriptorOf(last'.arg)]_vars

\* C29 (a label that was loaded): the same for the updates of a label that
\* was loaded before the call
C29_LoadedUpdateRewritesBoth ==
    [][(last'.op = "update" /\ last'.res = "ok" /\ last'.label \in DOMAIN jobs) =>
         /\ IsFile(fs', MetaYaml(last'.label)) /\ fs'[MetaYaml(last'.label)] = last'.arg
         /\ last'.label \in DOMAIN plist'
         /\ plist'[last'.label] = DescriptorOf(last'.arg)]_vars

\* C29 (the meta copy): after an update that returned success the meta copy
\* of the label holds the text
C29_UpdateRewritesMeta ==
    [][(last'.op = "update" /\ last'.res = "ok") =>
         IsFile(fs', MetaYaml(last'.label)) /\ fs'[MetaYaml(last'.label)] = last'.arg]_vars

\* C30: every descriptor file that holds a configuration has exactly one
\* StandardOutPath and exactly one StandardErrorPath key, and they name
\* stdout.log and stderr.log in the output folder of the descriptor's label,
\* whatever redirection path the text gave
KeysOf(desc, kind) == {i \in 1..Len(desc) : desc[i].kind = kind}

OnePath(desc, kind, path) ==
    /\ Cardinality(KeysOf(desc, kind)) = 1
    /\ \A i \in KeysOf(desc, kind) : desc[i].strs = <<PathStr(path)>>

C30_DescriptorRedirects ==
    \A l \in DOMAIN plist :
        plist[l] # <<>> =>
            /\ OnePath(plist[l], "StandardOutPath",
                       Child(get_output_folder_name(l), STD_OUT_FILE))
            /\ OnePath(plist[l], "StandardErrorPath",
                       Child(get_output_folder_name(l), STD_ERR_FILE))

\* a descriptor written from the text that redirects its output twice to a
\* log file outside the root
C30_Witness ==
    /\ last.res = "ok" /\ last.op \in {"create", "update"}
    /\ last.arg \in {"zipN", "ya2"}
    /\ LA \in DOMAIN plist /\ plist[LA] # <<>>
    /\ \E i \in 1..Len(plist[LA]) : plist[LA][i].kind = "ProgramArguments"
                                    /\ plist[LA][i].strs = << <<"x", TASK_ROOT_ALIAS>> >>

C30_LoadWitness ==
    /\ last.res = "ok" /\ last.op = "load"
    /\ last.label \in DOMAIN plist /\ plist[last.label] # <<>>

\* C31: create writes the meta copy of a label only after it has moved the
\* scratch tree into the task directory of the label: a create that leaves
\* a meta copy where there was none has left no scratch tree behind and the
\* task directory of the label exists
NewMeta(l) == ~Exists(fs, MetaYaml(l)) /\ Exists(fs', MetaYaml(l))

C31_MetaAfterMove ==
    [][\A l \in Labels :
          (last'.op = "create" /\ last'.res # "panic" /\ NewMeta(l)) =>
             /\ ~Exists(fs', Scratch)
             /\ IsDir(fs', get_task_folder_name(l))]_vars

\* C31, the later steps: a create that writes the descriptor file of a
\* label leaves the meta copy of the label, and every load invocation of a
\* create finds the descriptor file with its keys
DescriptorWritten(l) ==
    /\ l \in DOMAIN plist'
    /\ l \notin DOMAIN plist \/ plist'[l] # plist[l]

C31_DescriptorAfterMeta ==
    [][\A l \in Labels :
          (last'.op = "create" /\ DescriptorWritten(l)) => IsFile(fs', MetaYaml(l))]_vars

C31_LoadAfterDescriptor ==
    [][last'.op = "create" =>
          \A i \in 1..Len(last'.calls) :
             last'.calls[i].verb = "load" =>
                /\ last'.calls[i].desc # <<>>
                /\ last'.calls[i].desc[1] # <<>>
                /\ i = Len(last'.calls)]_vars

\* C32: a text whose WorkingDirectory starts with the root alias is not
\* rejected by update for naming no existing directory
C32_AliasDirectoryAccepted ==
    (last.op = "update" /\ last.arg = "yw") => last.res # "ConfigPathError"

\* the entry of an archive that is its one declarative file, and the label
\* the engine gives the job of the archive
DeclarativeEntry(z) == Zip(z)[CHOOSE i \in TopYaml(z) : TRUE]

LabelOfArchive(z) == append_domain(Doc(DeclarativeEntry(z).data).label)

C33_NestedNeverCreated ==
    (last.op = "create" /\ \E f \in FileEntries(last.arg) : Len(f.name) > 1) =>
        last.res # "ok"

\* ------------------------------------------------- operations side by side
\* The handlers of server.rs call create_task and delete_task on the worker
\* threads of the HttpServer, without a lock: the calls an operation makes
\* interleave with the calls of the operation on another thread.  No step
\* fails by itself here.

\* the local variables of an operation that was just called: the step it is
\* at (0 once it returned), its result, the path find_yaml_file returned,
\* the configuration from_yaml returned and the processed configuration
Job(op, zip, label) ==
    [op |-> op, zip |-> zip, label |-> label, pc |-> 1, res |-> "ok",
     yaml |-> None, config |-> None, processed |-> None]

\* launchctl.rs create_task, the call it makes at step st.pc; val is the
\* local variables after the call
create_task_step(w, st) ==
    CASE st.pc = 1 -> Then(try_to_remove_folder(w, Scratch), LAMBDA r : R(r.w, "ok", st))
      [] st.pc = 2 -> Then(decompress(w, st.zip, Scratch), LAMBDA r : R(r.w, "ok", st))
      [] st.pc = 3 -> Then(find_yaml_file(w, Scratch),
                           LAMBDA r : R(r.w, "ok", [st EXCEPT !.yaml = Some(r.val)]))
      [] st.pc = 4 -> IF ~IsFile(w.fs, st.yaml[1]) THEN Err(w, "YamlError")
                      ELSE With(from_yaml(w.fs[st.yaml[1]], w.prog), LAMBDA c :
                           IF c.res # "ok" THEN Err(w, c.res)
                           ELSE R(w, "ok", [st EXCEPT !.config = Some(c.val)]))
      [] st.pc = 5 -> Then(process_config(w, st.config[1]),
                           LAMBDA r : R(r.w, "ok", [st EXCEPT !.processed = Some(r.val)]))
      [] st.pc = 6 -> Then(move_yaml_to_meta(w, st.yaml[1], st.config[1].label),
                           LAMBDA r : R(r.w, "ok", st))
      [] st.pc = 7 -> Then(create_dir_check(w, get_task_folder_name(st.config[1].label)),
                           LAMBDA r : R(r.w, "ok", st))
      [] st.pc = 8 -> Then(move_by_rename(w, Scratch,
                                          get_task_folder_name(st.config[1].label)),
                           LAMBDA r : R(r.w, "ok", st))
      [] st.pc = 9 -> Then(chown_by_name_recursive(
                              w, get_task_folder_name(st.config[1].label), None, None),
                           LAMBDA r : R(r.w, "ok", st))
      [] OTHER -> Then(place_plist_and_load(w, st.processed[1]),
                       LAMBDA r : R(r.w, "ok", st))

\* launchctl.rs delete_task, the call it makes at step st.pc: the errors are
\* dropped, an abort is not
delete_task_step(w, st) ==
    CASE st.pc = 1 -> R(unload_task(w, st.label).w, "ok", st)
      [] st.pc = 2 -> With(move_by_rename(w, get_task_folder_name(st.label),
                                          get_trash_folder_name(st.label)),
                           LAMBDA r : R(r.w, IF r.res = "panic" THEN r.res ELSE "ok", st))
      [] st.pc = 3 -> R(trash_meta_yaml(w, st.label), "ok", st)
      [] OTHER -> With(try_clear_output(w, st.label),
                       LAMBDA r : R(r.w, IF r.res = "panic" THEN r.res ELSE "ok", st))

\* the number of calls create_task and delete_task make
LastStep(op) == IF op = "create" THEN 10 ELSE 4

\* the thread makes the next call of its operation; the operation returns
\* with the first error, or after its last call
StepOf(t, r) ==
    /\ fs' = r.w.fs
    /\ plist' = r.w.plist
    /\ jobs' = r.w.jobs
    /\ owner' = r.w.own
    /\ running' = [running EXCEPT ![t] =
                      IF r.res # "ok" THEN [@ EXCEPT !.pc = 0, !.res = r.res]
                      ELSE IF @.pc = LastStep(@.op) THEN [r.val EXCEPT !.pc = 0]
                      ELSE [r.val EXCEPT !.pc = @ + 1]]
    /\ UNCHANGED <<prog, last, nops, nfaults, config, ENVIRONMENT, callers, ninit>>

CreateStep ==
    \E t \in DOMAIN running :
       /\ running[t].op = "create" /\ running[t].pc > 0
       /\ \E r \in {create_task_step([World(fs, plist, jobs, prog, {}) EXCEPT !.own = owner],
                                     running[t])} : StepOf(t, r)

DeleteStep ==
    \E t \in DOMAIN running :
       /\ running[t].op = "delete" /\ running[t].pc > 0
       /\ \E r \in {delete_task_step([World(fs, plist, jobs, prog, {}) EXCEPT !.own = owner],
                                     running[t])} : StepOf(t, r)

\* the state a create of the archive with a.yaml and run.sh leaves
Created == create_task(World(<<>>, <<>>, <<>>, TRUE, {}), "zipA").w

\* two requests arrive together: two creates of archives with different
\* labels, or a create and a delete of one label; the label exists already
\* or there is no job yet
RaceInit ==
    /\ running \in {<<Job("create", "zipA", <<>>), Job("create", "zipB", <<>>)>>,
                    <<Job("create", "zipA", <<>>), Job("delete", "", LA)>>}
    /\ \E w \in {World(<<>>, <<>>, <<>>, TRUE, {}), Created} :
          fs = w.fs /\ plist = w.plist /\ jobs = w.jobs
    /\ prog = TRUE
    /\ last = NoCall
    /\ nops = 0
    /\ nfaults = 0
    /\ config = None
    /\ ENVIRONMENT = None
    /\ callers = [t \in Threads |-> [pc |-> "out", env |-> None, got |-> None]]
    /\ ninit = 0
    /\ owner = <<>>

RaceNext == CreateStep \/ DeleteStep

RaceSpec == RaceInit /\ [][RaceNext]_vars

\* both operations have returned
Returned == \A t \in DOMAIN running : running[t].pc = 0

\* the files below the task directory of a label, by their relative path
TaskFiles(f, l) ==
    {<<p.rel, f[p]>> : p \in FilesBelow(f, get_task_folder_name(l))}

\* the files a create of the archive puts in the task directory
ArchiveFiles(z) ==
    {<<e.name, e.data>> : e \in FileEntries(z) \ {DeclarativeEntry(z)}}

\* C34: two creates of archives with different labels that run side by side
\* both return success, and each leaves the task directory of its label
\* with exactly the files of its archive and the meta copy with its text
C34_CreatesDoNotInterfere ==
    \A t \in DOMAIN running :
       (running[t].op = "create" /\ running[t].pc = 0
          /\ \A u \in DOMAIN running : running[u].op = "create") =>
             /\ running[t].res = "ok"
             /\ TaskFiles(fs, LabelOfArchive(running[t].zip)) = ArchiveFiles(running[t].zip)
             /\ IsFile(fs, MetaYaml(LabelOfArchive(running[t].zip)))
             /\ fs[MetaYaml(LabelOfArchive(running[t].zip))]
                   = DeclarativeEntry(running[t].zip).data

\* C35: after a create and a delete of the same label that ran side by side
\* have both returned, the label is fully present (meta copy, task
\* directory and descriptor) or fully removed (not loaded, no meta copy, no
\* descriptor)
FullyPresent(l) ==
    IsFile(fs, MetaYaml(l)) /\ IsDir(fs, get_task_folder_name(l)) /\ l \in DOMAIN plist

FullyRemoved(l) == l \notin DOMAIN jobs /\ ~Exists(fs, MetaYaml(l)) /\ l \notin DOMAIN plist

C35_CreateDeleteConsistent ==
    (Returned /\ \E t \in DOMAIN running : running[t].op = "delete") =>
        FullyPresent(LA) \/ FullyRemoved(LA)

\* C36: in every state reached by calls of create, update, load, unload and
\* delete made one at a time, with steps that may fail, a label that is
\* loaded has its descriptor file and its meta copy
C36_LoadedHasFiles ==
    \A l \in DOMAIN jobs : l \in DOMAIN plist /\ IsFile(fs, MetaYaml(l))

\* C36 (no step fails): as long as no step has failed, a label that is
\* loaded has its descriptor file and its meta copy
C36_LoadedHasFilesUnfailed ==
    nfaults = 0 => \A l \in DOMAIN jobs : l \in DOMAIN plist /\ IsFile(fs, MetaYaml(l))

\* C37: after an update that returned an error, a label that was loaded
\* when update was called is still loaded
C37_FailedUpdateKeepsLoaded ==
    (last.op = "update" /\ last.res \notin {"ok", "panic"} /\ last.label \in last.loaded) =>
        Loaded(last.label)

\* C37 (the errors before the unload): after an update that returned an
\* error without invoking launchctl unload, a label that was loaded when
\* update was called is still loaded and no file has changed
C37_EarlyFailureKeepsLoaded ==
    [][(last'.op = "update" /\ last'.res \notin {"ok", "panic"}
          /\ last'.label \in DOMAIN jobs /\ last'.calls = <<>>) =>
             jobs' = jobs /\ fs' = fs /\ plist' = plist]_vars

\* ------------------------------------------------------ a used trash folder
\* the state a create of the archive with a.yaml and run.sh followed by a
\* delete of its label leaves: the task files and the meta copy of the
\* label are in its trash folder
Deleted == delete_task(Created, LA).w

TrashInit ==
    /\ fs = Deleted.fs
    /\ plist = Deleted.plist
    /\ jobs = Deleted.jobs
    /\ prog = TRUE
    /\ last = NoCall
    /\ nops = 0
    /\ nfaults = 0
    /\ OthersInit

\* the label is created, updated and deleted again
TrashSpec == TrashInit /\ [][Create \/ Update \/ Delete]_vars

\* C38: no call erases or overwrites a file of a trash folder: every file a
\* trash folder holds before a call is there after it with its content
C38_TrashKept ==
    [][\A p \in DOMAIN fs :
          (p.area = "trash" /\ IsFile(fs, p)) => (IsFile(fs', p) /\ fs'[p] = fs[p])]_vars

\* C38 (erasure alone): no call removes a file from a trash folder
C38_TrashNeverErased ==
    [][\A p \in DOMAIN fs : (p.area = "trash" /\ IsFile(fs, p)) => IsFile(fs', p)]_vars

\* C39: a create of an archive whose label is loaded or has a meta copy
\* returns an error and leaves the meta copies, the task directories, the
\* descriptor files and the loaded jobs as they were
C39_CreateExistingRejected ==
    [][(/\ last'.op = "create" /\ Cardinality(TopYaml(last'.arg)) = 1
        /\ \/ LabelOfArchive(last'.arg) \in DOMAIN jobs
           \/ Exists(fs, MetaYaml(LabelOfArchive(last'.arg)))) =>
          /\ last'.res # "ok"
          /\ Written(fs', plist') = Written(fs, plist)
          /\ jobs' = jobs]_vars

\* the step is a call of decompress with the trash folder of the label as
\* its destination
UnzipStep == last'.op = "unzip"

\* the paths a step has created or written
Touched(f, g) == {p \in DOMAIN g : p \notin DOMAIN f \/ g[p] # f[p]}

\* C40: every file or directory decompress creates lies in the destination
\* directory, whatever the names of the entries of the archive
C40_UnzipConfined ==
    [][UnzipStep => \A p \in Touched(fs, fs') : Under(get_trash_folder_name(LA), p)]_vars

\* C40 (plain names): decompress of an archive whose entry names are
\* relative and hold no .. creates files and directories in the destination
\* directory only
C40_PlainNamesConfined ==
    [][(UnzipStep /\ \A i \in 1..Len(Zip(last'.arg)) :
                        Head(Zip(last'.arg)[i].name) \notin {"/", ".."}) =>
          \A p \in Touched(fs, fs') : Under(get_trash_folder_name(LA), p)]_vars

====
